---- MODULE Spec2Model ----
(***************************************************************************)
(* A model of the Cranelift lowering of mono expressions                   *)
(* (compiler/gen/src/crane/build.rs): build_expr, build_branch2,           *)
(* build_switch, call_by_name, declare_proc and define_proc_body, together *)
(* with an interpreter of the emitted blocks.                              *)
(*                                                                         *)
(* The lowering state `b` is the FunctionBuilder (blocks of instructions,  *)
(* SSA values, stack slots, the frontend variable, sealed blocks) plus the *)
(* store of Scope objects the lowering calls hold references to.  A panic  *)
(* is the field err becoming non-empty; nothing is emitted after it.       *)
(***************************************************************************)
EXTENDS Integers, Sequences, FiniteSets, TLC

VARIABLES
    pc,      \* the driver's position: declare_proc, the steps of define_proc_body, the run
    inp,     \* the input: the Proc, the scope and module it is built in, the Env
    module,  \* the Module
    ctx,     \* the shared codegen Context
    decl,    \* what declare_proc returned: (fn_id, sig)
    b,       \* the lowering state: the FunctionBuilder and the Scope objects
    sref,    \* define_proc_body's own scope (a reference into b.scopes)
    body,    \* the value build_expr returned for the body
    panic,   \* the message of the panic that ended the build, or ""
    ex,      \* the execution of the defined function
    ser      \* gen_wasm's serializer: a SerialBuffer, a parse cursor, what was returned

vars == <<pc, inp, module, ctx, decl, b, sref, body, panic, ex, ser>>

(***************************************************************************)
(* Bounds of the model.                                                    *)
(***************************************************************************)
MaxLit == 2
MaxArgVal == 2

(***************************************************************************)
(* Layouts and the layout oracle (roc_mono::layout, crane::convert).       *)
(***************************************************************************)
PointerBytes == 8

Scalar(k) == [kind |-> k, elem |-> "", fields |-> << >>]
ListOf(k) == [kind |-> "List", elem |-> k, fields |-> << >>]
StructOf(ks) == [kind |-> "Struct", elem |-> "", fields |-> ks]
FnPtrOf(argks, retk) == [kind |-> "FunctionPointer", elem |-> retk, fields |-> argks]

Int64L == Scalar("Int64")
Float64L == Scalar("Float64")
BoolL == Scalar("Bool")
ByteL == Scalar("Byte")

kind_size(k, pointer_bytes) ==
    CASE k = "Int64" -> 8
      [] k = "Float64" -> 8
      [] k = "Bool" -> 1
      [] k = "Byte" -> 1
      [] OTHER -> pointer_bytes

RECURSIVE sum_sizes(_, _)
sum_sizes(ks, pointer_bytes) ==
    IF ks = << >> THEN 0
    ELSE kind_size(Head(ks), pointer_bytes) + sum_sizes(Tail(ks), pointer_bytes)

stack_size(layout, pointer_bytes) ==
    IF layout.kind = "Struct" THEN sum_sizes(layout.fields, pointer_bytes)
    ELSE kind_size(layout.kind, pointer_bytes)

kind_type(k) ==
    CASE k = "Int64" -> "i64"
      [] k = "Float64" -> "f64"
      [] k = "Bool" -> "b1"
      [] k = "Byte" -> "i8"
      [] OTHER -> "i64"

type_from_layout(cfg, layout) == kind_type(layout.kind)

(***************************************************************************)
(* Expr (roc_mono::expr::Expr), Proc and ScopeEntry.                       *)
(***************************************************************************)
ExprInt(n) == [tag |-> "Int", num |-> n]
ExprFloat(n) == [tag |-> "Float", num |-> n]
ExprBool(v) == [tag |-> "Bool", val |-> v]
ExprByte(n) == [tag |-> "Byte", num |-> n]
ExprLoad(name) == [tag |-> "Load", name |-> name]
ExprCond(c, cl, p, f, rl) ==
    [tag |-> "Cond", cond |-> c, cond_layout |-> cl, pass |-> p, fail |-> f,
     ret_layout |-> rl]
ExprSwitch(c, cl, brs, d, rl) ==
    [tag |-> "Switch", cond |-> c, cond_layout |-> cl, branches |-> brs,
     default_branch |-> d, ret_layout |-> rl]
ExprStore(stores, ret) == [tag |-> "Store", stores |-> stores, ret |-> ret]
ExprCallByName(symbol, args) == [tag |-> "CallByName", symbol |-> symbol, args |-> args]
ExprFunctionPointer(name) == [tag |-> "FunctionPointer", name |-> name]
ExprCallByPointer(sub, args, layout) ==
    [tag |-> "CallByPointer", sub_expr |-> sub, args |-> args, layout |-> layout]
ExprStruct(layout, fields) == [tag |-> "Struct", layout |-> layout, fields |-> fields]
ExprStr(bytes) == [tag |-> "Str", bytes |-> bytes]
ExprArray(elem_layout, elems) ==
    [tag |-> "Array", elem_layout |-> elem_layout, elems |-> elems]
ExprAccess(label) == [tag |-> "Access", label |-> label]

Binding(name, layout, expr) == [name |-> name, layout |-> layout, expr |-> expr]
Field(name, expr) == [name |-> name, expr |-> expr]
Arg(expr, layout) == [expr |-> expr, layout |-> layout]
Branch(val, expr) == [val |-> val, expr |-> expr]
Param(layout, symbol) == [layout |-> layout, symbol |-> symbol]

Signature(params, returns) == [params |-> params, returns |-> returns]

ScopeEntry(kind, expr_type, id) == [kind |-> kind, expr_type |-> expr_type, id |-> id]
StackEntry(expr_type, slot) == ScopeEntry("Stack", expr_type, slot)
HeapEntry(expr_type, ptr) == ScopeEntry("Heap", expr_type, ptr)
ArgEntry(expr_type, param) == ScopeEntry("Arg", expr_type, param)
FuncEntry(sig, func_id) ==
    [kind |-> "Func", expr_type |-> "", id |-> func_id, sig |-> sig]

EmptyScope == << >>
ScopeInsert(scope, name, entry) == (name :> entry) @@ scope

(***************************************************************************)
(* The lowering state: FunctionBuilder and the store of Scope objects.     *)
(***************************************************************************)
NewBuilder(scope) ==
    [blocks |-> << >>, cur |-> 0, vtypes |-> << >>, slots |-> << >>,
     vartype |-> "", sealed |-> {}, finalized |-> FALSE, err |-> "",
     log |-> << >>, scopes |-> <<scope>>]

Event(ev, n) == [ev |-> ev, n |-> n]

Panic(bb, msg) == IF bb.err # "" THEN bb ELSE [bb EXCEPT !.err = msg]

Instr(op, ty, imm, args, tgt) ==
    [op |-> op, ty |-> ty, imm |-> imm, args |-> args, tgt |-> tgt, res |-> 0,
     tbl |-> << >>]

\* builder.ins().<op>(...) for an instruction without a result
Ins(bb, i) ==
    IF bb.err # "" THEN bb
    ELSE [bb EXCEPT !.blocks[bb.cur] = Append(@, i),
                    !.log = Append(@, Event(i.op, bb.cur))]

\* builder.ins().<op>(...) for an instruction with one result of type i.ty;
\* the result is the value LastVal of the builder returned
InsV(bb, i) ==
    IF bb.err # "" THEN bb
    ELSE [bb EXCEPT !.blocks[bb.cur] = Append(@, [i EXCEPT !.res = Len(bb.vtypes) + 1]),
                    !.vtypes = Append(@, i.ty),
                    !.log = Append(@, Event(i.op, bb.cur))]

LastVal(bb) == Len(bb.vtypes)

create_block(bb) ==
    IF bb.err # "" THEN bb
    ELSE [bb EXCEPT !.blocks = Append(@, << >>),
                    !.log = Append(@, Event("create_block", Len(bb.blocks) + 1))]

LastBlock(bb) == Len(bb.blocks)

switch_to_block(bb, block) ==
    IF bb.err # "" THEN bb
    ELSE [bb EXCEPT !.cur = block, !.log = Append(@, Event("switch_to_block", block))]

declare_var(bb, ty) ==
    IF bb.err # "" THEN bb
    ELSE [bb EXCEPT !.vartype = ty, !.log = Append(@, Event("declare_var", 0))]

create_stack_slot(bb, size) ==
    IF bb.err # "" THEN bb
    ELSE [bb EXCEPT !.slots = Append(@, size),
                    !.log = Append(@, Event("create_stack_slot", Len(bb.slots) + 1))]

LastSlot(bb) == Len(bb.slots)

ValType(bb, v) == IF v \in 1..Len(bb.vtypes) THEN bb.vtypes[v] ELSE ""

\* builder.def_var(ret, val): cranelift debug-asserts that the type of the
\* value is the type the variable was declared with last
def_var(env, bb, val) ==
    IF bb.err # "" THEN bb
    ELSE IF env.debug_assertions /\ ValType(bb, val) # bb.vartype
    THEN Panic(bb, "declared type of variable doesn't match type of value")
    ELSE Ins(bb, Instr("def_var", ValType(bb, val), 0, <<val>>, 0))

\* builder.use_var(ret): a value of the type the variable was declared with last
use_var(bb) == InsV(bb, Instr("use_var", bb.vartype, 0, << >>, 0))

\* scope_clone handing out the Scope object itself instead of a copy
scope_clone_alias(bb, ref) == [b |-> bb, ref |-> ref]

\* im_rc::HashMap::clone: a new Scope object with the bindings of `ref`
scope_clone(bb, ref) ==
    IF bb.err # "" THEN [b |-> bb, ref |-> ref]
    ELSE [b |-> [bb EXCEPT !.scopes = Append(@, bb.scopes[ref])],
          ref |-> Len(bb.scopes) + 1]

\* scope.insert(name, entry) on the Scope object `ref`
scope_insert(bb, ref, name, entry) ==
    IF bb.err # "" THEN bb
    ELSE [bb EXCEPT !.scopes[ref] = ScopeInsert(@, name, entry)]

ScopeHas(bb, ref, name) == name \in DOMAIN bb.scopes[ref]
ScopeGet(bb, ref, name) == bb.scopes[ref][name]

Ret(bb, val) == [b |-> bb, val |-> IF bb.err # "" THEN 0 ELSE val]

(***************************************************************************)
(* Env: the target configuration, the allocation primitive and whether     *)
(* the build compiles debug assertions.                                    *)
(***************************************************************************)
MallocId == 1

Env(debug_assertions) ==
    [pointer_bytes |-> PointerBytes, pointer_type |-> "i64", malloc |-> MallocId,
     debug_assertions |-> debug_assertions]

(***************************************************************************)
(* Field names are compared as strings; NameRank is that order on the      *)
(* names the model uses.                                                   *)
(***************************************************************************)
NameRank(name) ==
    CASE name = "a" -> 1 [] name = "b" -> 2 [] name = "c" -> 3 [] name = "d" -> 4
      [] OTHER -> 5

RECURSIVE insert_sorted(_, _)
insert_sorted(sorted, f) ==
    IF sorted = << >> THEN <<f>>
    ELSE IF NameRank(f.name) < NameRank(Head(sorted).name)
         THEN <<f>> \o sorted
         ELSE <<Head(sorted)>> \o insert_sorted(Tail(sorted), f)

RECURSIVE sort_from(_, _, _)
sort_from(fields, i, acc) ==
    IF i > Len(fields) THEN acc
    ELSE sort_from(fields, i + 1, insert_sorted(acc, fields[i]))

\* sort_by_key leaving the fields in their source order
sort_by_key_none(fields) == fields

\* sorted_fields.sort_by_key(|k| &k.0): a stable sort by field name
sort_by_key(fields) == sort_from(fields, 1, << >>)

Builtins ==
    {"INT_ADD", "NUM_ADD", "FLOAT_ADD", "INT_SUB", "NUM_SUB", "FLOAT_SUB",
     "NUM_MUL", "NUM_NEG", "INT_EQ_I64", "INT_EQ_I8", "INT_EQ_I1", "FLOAT_EQ",
     "LIST_GET_UNSAFE", "LIST_SET", "LIST_SET_IN_PLACE"}

\* fn call_malloc
call_malloc(env, bb, size) ==
    LET b1 == IF bb.err # "" THEN bb
              ELSE [bb EXCEPT !.log = Append(@, Event("declare_func_in_func", env.malloc))]
        b2 == InsV(b1, Instr("iconst", env.pointer_type, size, << >>, 0))
        b3 == InsV(b2, Instr("call", env.pointer_type, 0, <<LastVal(b2)>>, env.malloc))
    IN  Ret(b3, LastVal(b3))

\* fn list_set_in_place
list_set_in_place(env, list_ptr, elem_index, elem, elem_layout, bb) ==
    LET elem_bytes == stack_size(elem_layout, env.pointer_bytes)
        b1 == InsV(bb, Instr("iconst", "i64", elem_bytes, << >>, 0))
        elem_size == LastVal(b1)
        b2 == InsV(b1, Instr("imul", "i64", 0, <<elem_index, elem_size>>, 0))
        offset == LastVal(b2)
        b3 == Ins(b2, Instr("store_complex", "", 0, <<elem, list_ptr, offset>>, 0))
    IN  Ret(b3, list_ptr)

\* debug_assert!(args.len() == n)
debug_assert_len(env, bb, args, n) ==
    IF env.debug_assertions /\ Len(args) # n
    THEN Panic(bb, "assertion failed: args.len()") ELSE bb

RECURSIVE build_expr(_, _, _, _)
RECURSIVE build_args(_, _, _, _, _, _)
RECURSIVE store_loop(_, _, _, _, _)
RECURSIVE struct_loop(_, _, _, _, _, _)
RECURSIVE array_loop(_, _, _, _, _, _, _)
RECURSIVE array_loop_packed(_, _, _, _, _, _, _)
RECURSIVE switch_branches(_, _, _, _, _, _, _)
RECURSIVE build_branch2(_, _, _, _)
RECURSIVE build_switch(_, _, _, _)
RECURSIVE call_by_name(_, _, _, _, _)
RECURSIVE build_arg(_, _, _, _, _)
RECURSIVE binary_builtin(_, _, _, _, _, _)

\* fn build_arg, on &args[i] (a panic when i is out of bounds)
build_arg(args, i, env, ref, bb) ==
    IF bb.err # "" THEN Ret(bb, 0)
    ELSE IF i > Len(args) THEN Ret(Panic(bb, "index out of bounds"), 0)
    ELSE build_expr(env, ref, bb, args[i].expr)

\* the lowering of a sequence of expressions, left to right, under one scope
build_args(env, ref, bb, exprs, i, vals) ==
    IF i > Len(exprs) THEN [b |-> bb, vals |-> vals]
    ELSE LET r == build_expr(env, ref, bb, exprs[i])
         IN  build_args(env, ref, r.b, exprs, i + 1, Append(vals, r.val))

\* the arms of call_by_name that lower two arguments to one instruction
binary_builtin(env, ref, bb, args, op, ty) ==
    LET b0 == debug_assert_len(env, bb, args, 2)
        ra == build_arg(args, 1, env, ref, b0)
        rb == build_arg(args, 2, env, ref, ra.b)
        rty == IF ty = "" THEN ValType(rb.b, ra.val) ELSE ty
        b1 == InsV(rb.b, Instr(op, rty, 0, <<ra.val, rb.val>>, 0))
    IN  Ret(b1, LastVal(b1))

\* store_loop with the binding made before its initializer is lowered
RECURSIVE store_loop_rec(_, _, _, _, _)
store_loop_rec(env, local, bb, stores, i) ==
    IF i > Len(stores) THEN [b |-> bb, local |-> local]
    ELSE LET s == stores[i]
             expr_type == type_from_layout(env, s.layout)
             b1 == create_stack_slot(bb, stack_size(s.layout, env.pointer_bytes))
             slot == LastSlot(b1)
             c == scope_clone(b1, local)
             b2 == scope_insert(c.b, c.ref, s.name, StackEntry(expr_type, slot))
             r == build_expr(env, c.ref, b2, s.expr)
             b3 == Ins(r.b, Instr("stack_store", "", 0, <<r.val>>, slot))
         IN  store_loop_rec(env, c.ref, b3, stores, i + 1)

\* the Store arm's loop over the bindings
store_loop(env, local, bb, stores, i) ==
    IF i > Len(stores) THEN [b |-> bb, local |-> local]
    ELSE LET s == stores[i]
             r == build_expr(env, local, bb, s.expr)
             expr_type == type_from_layout(env, s.layout)
             b1 == create_stack_slot(r.b, stack_size(s.layout, env.pointer_bytes))
             slot == LastSlot(b1)
             b2 == Ins(b1, Instr("stack_store", "", 0, <<r.val>>, slot))
             c == scope_clone(b2, local)
             b4 == scope_insert(c.b, c.ref, s.name, StackEntry(expr_type, slot))
         IN  store_loop(env, c.ref, b4, stores, i + 1)

\* the Struct arm's loop over the sorted fields
struct_loop(env, ref, bb, sorted_fields, slot, index) ==
    IF index + 1 > Len(sorted_fields) THEN bb
    ELSE LET inner_expr == sorted_fields[index + 1].expr
             r == build_expr(env, ref, bb, inner_expr)
             b1 == IF inner_expr.tag = "Int" THEN r.b
                   ELSE Panic(r.b, "I don't yet know how to calculate the offset")
             field_size == 8
             offset == index * field_size
             b2 == Ins(b1, Instr("stack_store", "", offset, <<r.val>>, slot))
         IN  struct_loop(env, ref, b2, sorted_fields, slot, index + 1)

\* array_loop storing element i at byte offset i
array_loop_packed(env, ref, bb, elems, elem_bytes, ptr, index) ==
    IF index + 1 > Len(elems) THEN bb
    ELSE LET offset == index
             r == build_expr(env, ref, bb, elems[index + 1])
             b1 == Ins(r.b, Instr("store", "", offset, <<r.val, ptr>>, 0))
         IN  array_loop_packed(env, ref, b1, elems, elem_bytes, ptr, index + 1)

\* the Array arm's loop over the elements
array_loop(env, ref, bb, elems, elem_bytes, ptr, index) ==
    IF index + 1 > Len(elems) THEN bb
    ELSE LET offset == elem_bytes * index
             r == build_expr(env, ref, bb, elems[index + 1])
             b1 == Ins(r.b, Instr("store", "", offset, <<r.val, ptr>>, 0))
         IN  array_loop(env, ref, b1, elems, elem_bytes, ptr, index + 1)

\* build_branch with the builder.seal_block(block) that the source comments out
branch2_build_branch_sealed(env, ref, bb, expr, block, ret_block) ==
    LET b1 == switch_to_block(bb, block)
        b1s == IF b1.err # "" THEN b1
               ELSE [b1 EXCEPT !.sealed = @ \cup {block},
                               !.log = Append(@, Event("seal_block", block))]
        r == build_expr(env, ref, b1s, expr)
        b2 == def_var(env, r.b, r.val)
    IN  Ins(b2, Instr("jump", "", 0, << >>, ret_block))

\* build_branch without the def_var of the result variable
branch2_build_branch_unwritten(env, ref, bb, expr, block, ret_block) ==
    LET b1 == switch_to_block(bb, block)
        r == build_expr(env, ref, b1, expr)
    IN  Ins(r.b, Instr("jump", "", 0, << >>, ret_block))

\* the closure build_branch of build_branch2
branch2_build_branch(env, ref, bb, expr, block, ret_block) ==
    LET b1 == switch_to_block(bb, block)
        r == build_expr(env, ref, b1, expr)
        b2 == def_var(env, r.b, r.val)
    IN  Ins(b2, Instr("jump", "", 0, << >>, ret_block))

\* build_branch2 branching to the fail block when the condition is true
build_branch2_swapped(env, ref, bb, branch) ==
    LET ret_type == type_from_layout(env, branch.ret_layout)
        b1 == create_block(bb)
        ret_block == LastBlock(b1)
        b2 == declare_var(b1, ret_type)
        rc == build_expr(env, ref, b2, branch.cond)
        b3 == create_block(rc.b)
        pass_block == LastBlock(b3)
        b4 == create_block(b3)
        fail_block == LastBlock(b4)
        b5 == IF branch.cond_layout.kind = "Bool"
              THEN Ins(b4, Instr("brnz", "", 0, <<rc.val>>, fail_block))
              ELSE Panic(b4, "I don't know how to build a conditional")
        b6 == Ins(b5, Instr("jump", "", 0, << >>, pass_block))
        b7 == branch2_build_branch(env, ref, b6, branch.pass, pass_block, ret_block)
        b8 == branch2_build_branch(env, ref, b7, branch.fail, fail_block, ret_block)
        b9 == switch_to_block(b8, ret_block)
        b10 == use_var(b9)
    IN  Ret(b10, LastVal(b10))

\* fn build_branch2
build_branch2(env, ref, bb, branch) ==
    LET ret_type == type_from_layout(env, branch.ret_layout)
        b1 == create_block(bb)
        ret_block == LastBlock(b1)
        b2 == declare_var(b1, ret_type)
        rc == build_expr(env, ref, b2, branch.cond)
        b3 == create_block(rc.b)
        pass_block == LastBlock(b3)
        b4 == create_block(b3)
        fail_block == LastBlock(b4)
        b5 == IF branch.cond_layout.kind = "Bool"
              THEN Ins(b4, Instr("brnz", "", 0, <<rc.val>>, pass_block))
              ELSE Panic(b4, "I don't know how to build a conditional")
        b6 == Ins(b5, Instr("jump", "", 0, << >>, fail_block))
        b7 == branch2_build_branch(env, ref, b6, branch.pass, pass_block, ret_block)
        b8 == branch2_build_branch(env, ref, b7, branch.fail, fail_block, ret_block)
        b9 == switch_to_block(b8, ret_block)
        b10 == use_var(b9)
    IN  Ret(b10, LastVal(b10))

\* Switch::set_entry for every branch of build_switch, each with a new block;
\* cranelift's set_entry asserts that no entry is set twice
RECURSIVE switch_entries(_, _, _, _)
switch_entries(bb, branches, i, tbl) ==
    IF i > Len(branches) THEN [b |-> bb, tbl |-> tbl]
    ELSE LET b1 == create_block(bb)
             block == LastBlock(b1)
             dup == \E k \in 1..Len(tbl) : tbl[k][1] = branches[i].val
             b2 == IF dup THEN Panic(b1, "Tried to set the same entry twice")
                   ELSE IF b1.err # "" THEN b1
                   ELSE [b1 EXCEPT !.log = Append(@, Event("set_entry", block))]
         IN  switch_entries(b2, branches, i + 1, Append(tbl, <<branches[i].val, block>>))

\* build_branch of build_switch switching to its block a second time before
\* the def_var
switch_build_branch_reentered(env, ref, bb, block, expr, ret_block) ==
    LET b1 == switch_to_block(bb, block)
        r == build_expr(env, ref, b1, expr)
        b2 == def_var(env, switch_to_block(r.b, r.b.cur), r.val)
    IN  Ins(b2, Instr("jump", "", 0, << >>, ret_block))

\* the closure build_branch of build_switch
switch_build_branch(env, ref, bb, block, expr, ret_block) ==
    LET b1 == switch_to_block(bb, block)
        r == build_expr(env, ref, b1, expr)
        b2 == def_var(env, r.b, r.val)
    IN  Ins(b2, Instr("jump", "", 0, << >>, ret_block))

\* switch_branches with the blocks zipped in reverse
RECURSIVE switch_branches_rev(_, _, _, _, _, _, _)
switch_branches_rev(env, ref, bb, branches, tbl, i, ret_block) ==
    IF i > Len(branches) THEN bb
    ELSE switch_branches_rev(env, ref,
             switch_build_branch(env, ref, bb, tbl[Len(branches) + 1 - i][2],
                                 branches[i].expr, ret_block),
             branches, tbl, i + 1, ret_block)

\* the loop of build_switch over branches.iter().zip(blocks)
switch_branches(env, ref, bb, branches, tbl, i, ret_block) ==
    IF i > Len(branches) THEN bb
    ELSE switch_branches(env, ref,
             switch_build_branch(env, ref, bb, tbl[i][2], branches[i].expr, ret_block),
             branches, tbl, i + 1, ret_block)

\* build_switch lowering the discriminant before it registers the branches
build_switch_cond_first(env, ref, bb, switch_args) ==
    LET b1 == declare_var(bb, switch_args.ret_type)
        b2 == create_block(b1)
        default_block == LastBlock(b2)
        b3 == create_block(b2)
        ret_block == LastBlock(b3)
        rc == build_expr(env, ref, b3, switch_args.cond_expr)
        se == switch_entries(rc.b, switch_args.branches, 1, << >>)
        emit == [Instr("switch", "", 0, <<rc.val>>, default_block) EXCEPT !.tbl = se.tbl]
        b4 == Ins(se.b, emit)
        b5 == switch_branches(env, ref, b4, switch_args.branches, se.tbl, 1, ret_block)
        b6 == switch_build_branch(env, ref, b5, default_block,
                                  switch_args.default_branch, ret_block)
        b7 == switch_to_block(b6, ret_block)
        b8 == use_var(b7)
    IN  Ret(b8, LastVal(b8))

\* fn build_switch
build_switch(env, ref, bb, switch_args) ==
    LET b1 == declare_var(bb, switch_args.ret_type)
        b2 == create_block(b1)
        default_block == LastBlock(b2)
        b3 == create_block(b2)
        ret_block == LastBlock(b3)
        se == switch_entries(b3, switch_args.branches, 1, << >>)
        rc == build_expr(env, ref, se.b, switch_args.cond_expr)
        emit == [Instr("switch", "", 0, <<rc.val>>, default_block) EXCEPT !.tbl = se.tbl]
        b4 == Ins(rc.b, emit)
        b5 == switch_branches(env, ref, b4, switch_args.branches, se.tbl, 1, ret_block)
        b6 == switch_build_branch(env, ref, b5, default_block,
                                  switch_args.default_branch, ret_block)
        b7 == switch_to_block(b6, ret_block)
        b8 == use_var(b7)
    IN  Ret(b8, LastVal(b8))

\* str_loop storing byte i at offset i + 1
RECURSIVE str_loop_shift(_, _, _, _)
str_loop_shift(bb, bytes, ptr, index) ==
    IF index + 1 > Len(bytes) THEN bb
    ELSE LET b1 == InsV(bb, Instr("iconst", "i8", bytes[index + 1], << >>, 0))
             b2 == Ins(b1, Instr("store", "", index + 1, <<LastVal(b1), ptr>>, 0))
         IN  str_loop_shift(b2, bytes, ptr, index + 1)

\* the Str arm's loop over the bytes of the literal
RECURSIVE str_loop(_, _, _, _)
str_loop(bb, bytes, ptr, index) ==
    IF index + 1 > Len(bytes) THEN bb
    ELSE LET b1 == InsV(bb, Instr("iconst", "i8", bytes[index + 1], << >>, 0))
             b2 == Ins(b1, Instr("store", "", index, <<LastVal(b1), ptr>>, 0))
         IN  str_loop(b2, bytes, ptr, index + 1)

\* crane::convert::sig_from_layout
sig_from_layout(cfg, bb, layout) ==
    IF layout.kind = "FunctionPointer"
    THEN [b |-> bb,
          sig |-> Signature([i \in 1..Len(layout.fields) |-> kind_type(layout.fields[i])],
                            <<kind_type(layout.elem)>>)]
    ELSE [b |-> Panic(bb, "Could not make Signature from Layout"),
          sig |-> Signature(<< >>, << >>)]

declare_func_in_func(bb, fn_id) ==
    IF bb.err # "" THEN bb
    ELSE [bb EXCEPT !.log = Append(@, Event("declare_func_in_func", fn_id))]

\* the default arm of call_by_name: a call of the function the scope binds
call_func(env, symbol, args, ref, bb) ==
    IF ~(ScopeHas(bb, ref, symbol) /\ ScopeGet(bb, ref, symbol).kind = "Func")
    THEN Ret(Panic(bb, "CallByName could not find function"), 0)
    ELSE LET fn_id == ScopeGet(bb, ref, symbol).id
             b1 == declare_func_in_func(bb, fn_id)
             ra == build_args(env, ref, b1, [i \in 1..Len(args) |-> args[i].expr],
                              1, << >>)
             ret_type == ScopeGet(bb, ref, symbol).sig.returns[1]
             b2 == InsV(ra.b, Instr("call", ret_type, 0, ra.vals, fn_id))
         IN  Ret(b2, LastVal(b2))

\* the arms of call_by_name for the builtin symbols
call_builtin(env, symbol, args, ref, bb) ==
    CASE symbol \in {"INT_ADD", "NUM_ADD"} -> binary_builtin(env, ref, bb, args, "iadd", "")
      [] symbol = "FLOAT_ADD" -> binary_builtin(env, ref, bb, args, "fadd", "")
      [] symbol \in {"INT_SUB", "NUM_SUB"} -> binary_builtin(env, ref, bb, args, "isub", "")
      [] symbol = "FLOAT_SUB" -> binary_builtin(env, ref, bb, args, "fsub", "")
      [] symbol = "NUM_MUL" -> binary_builtin(env, ref, bb, args, "imul", "")
      [] symbol = "NUM_NEG" ->
            LET b0 == debug_assert_len(env, bb, args, 1)
                r == build_arg(args, 1, env, ref, b0)
                b1 == InsV(r.b, Instr("ineg", ValType(r.b, r.val), 0, <<r.val>>, 0))
            IN  Ret(b1, LastVal(b1))
      [] symbol \in {"INT_EQ_I64", "INT_EQ_I8", "INT_EQ_I1"} ->
            binary_builtin(env, ref, bb, args, "icmp", "b1")
      [] symbol = "FLOAT_EQ" -> binary_builtin(env, ref, bb, args, "fcmp", "b1")
      [] symbol = "LIST_GET_UNSAFE" ->
            LET b0 == debug_assert_len(env, bb, args, 2)
                rl == build_arg(args, 1, env, ref, b0)
                ri == build_arg(args, 2, env, ref, rl.b)
                elem_type == "i64"
                elem_bytes == 8
                b1 == InsV(ri.b, Instr("iconst", "i64", elem_bytes, << >>, 0))
                elem_size == LastVal(b1)
                b2 == InsV(b1, Instr("imul", "i64", 0, <<ri.val, elem_size>>, 0))
                offset == LastVal(b2)
                b3 == InsV(b2, Instr("load_complex", elem_type, 0, <<rl.val, offset>>, 0))
            IN  Ret(b3, LastVal(b3))
      [] symbol = "LIST_SET" ->
            IF Len(args) < 1 THEN Ret(Panic(bb, "index out of bounds"), 0)
            ELSE IF args[1].layout.kind # "List"
            THEN Ret(Panic(bb, "Invalid List layout for List.set"), 0)
            ELSE LET elem_layout == Scalar(args[1].layout.elem)
                     num_elems == 10
                     elem_bytes == stack_size(elem_layout, env.pointer_bytes)
                     bytes_len == (elem_bytes * num_elems) + 1
                     rp == call_malloc(env, bb, bytes_len)
                     ri == build_arg(args, 2, env, ref, rp.b)
                     re == build_arg(args, 3, env, ref, ri.b)
                     rs == list_set_in_place(env, rp.val, ri.val, re.val, elem_layout, re.b)
                 IN  Ret(rs.b, rp.val)
      [] symbol = "LIST_SET_IN_PLACE" ->
            LET b0 == debug_assert_len(env, bb, args, 3)
            IN  IF b0.err # "" THEN Ret(b0, 0)
                ELSE IF Len(args) < 1 THEN Ret(Panic(b0, "index out of bounds"), 0)
                ELSE LET rl == build_expr(env, ref, b0, args[1].expr)
                     IN  IF args[1].layout.kind # "List"
                         THEN Ret(Panic(rl.b, "Invalid List layout for List.set"), 0)
                         ELSE LET elem_layout == Scalar(args[1].layout.elem)
                                  ri == build_arg(args, 2, env, ref, rl.b)
                                  re == build_arg(args, 3, env, ref, ri.b)
                              IN  list_set_in_place(env, rl.val, ri.val, re.val,
                                                    elem_layout, re.b)
      [] OTHER -> call_func(env, symbol, args, ref, bb)

\* call_by_name looking the symbol up in the scope before the builtins
call_by_name_scope_first(env, symbol, args, ref, bb) ==
    IF ScopeHas(bb, ref, symbol) /\ ScopeGet(bb, ref, symbol).kind = "Func"
    THEN call_func(env, symbol, args, ref, bb)
    ELSE call_builtin(env, symbol, args, ref, bb)

\* fn call_by_name: the match on the symbol
call_by_name(env, symbol, args, ref, bb) ==
    IF symbol \in Builtins THEN call_builtin(env, symbol, args, ref, bb)
    ELSE call_func(env, symbol, args, ref, bb)

\* the FunctionPointer arm taking the id of whatever descriptor the scope has
build_function_pointer_any(env, ref, bb, name) ==
    IF ~ScopeHas(bb, ref, name)
    THEN Ret(Panic(bb, "FunctionPointer could not find function"), 0)
    ELSE LET fn_id == ScopeGet(bb, ref, name).id
             b1 == declare_func_in_func(bb, fn_id)
             b2 == InsV(b1, Instr("func_addr", env.pointer_type, 0, << >>, fn_id))
         IN  Ret(b2, LastVal(b2))

\* the FunctionPointer arm of build_expr
build_function_pointer(env, ref, bb, name) ==
    IF ~(ScopeHas(bb, ref, name) /\ ScopeGet(bb, ref, name).kind = "Func")
    THEN Ret(Panic(bb, "FunctionPointer could not find function"), 0)
    ELSE LET fn_id == ScopeGet(bb, ref, name).id
             b1 == declare_func_in_func(bb, fn_id)
             b2 == InsV(b1, Instr("func_addr", env.pointer_type, 0, << >>, fn_id))
         IN  Ret(b2, LastVal(b2))

\* the Load arm reading every descriptor as a stack slot
build_load_slot(ref, bb, name) ==
    IF ~ScopeHas(bb, ref, name)
    THEN Ret(Panic(bb, "Could not resolve lookup"), 0)
    ELSE LET e == ScopeGet(bb, ref, name)
             b1 == InsV(bb, Instr("stack_load", e.expr_type, 0, << >>, e.id))
         IN  Ret(b1, LastVal(b1))

\* the Load arm of build_expr
build_load(ref, bb, name) ==
    IF ~ScopeHas(bb, ref, name)
    THEN Ret(Panic(bb, "Could not resolve lookup"), 0)
    ELSE LET e == ScopeGet(bb, ref, name)
         IN  CASE e.kind = "Stack" ->
                    LET b1 == InsV(bb, Instr("stack_load", e.expr_type, 0, << >>, e.id))
                    IN  Ret(b1, LastVal(b1))
               [] e.kind = "Arg" -> Ret(bb, e.id)
               [] e.kind = "Heap" ->
                    LET b1 == InsV(bb, Instr("load", e.expr_type, 0, <<e.id>>, 0))
                    IN  Ret(b1, LastVal(b1))
               [] OTHER ->
                    Ret(Panic(bb, "TODO I don't yet know how to return fn pointers"), 0)

\* fn build_expr
build_expr(env, ref, bb, expr) ==
    IF bb.err # "" THEN Ret(bb, 0)
    ELSE
    CASE expr.tag = "Int" ->
            LET b1 == InsV(bb, Instr("iconst", "i64", expr.num, << >>, 0))
            IN  Ret(b1, LastVal(b1))
      [] expr.tag = "Float" ->
            LET b1 == InsV(bb, Instr("f64const", "f64", expr.num, << >>, 0))
            IN  Ret(b1, LastVal(b1))
      [] expr.tag = "Bool" ->
            LET b1 == InsV(bb, Instr("bconst", "b1", IF expr.val THEN 1 ELSE 0, << >>, 0))
            IN  Ret(b1, LastVal(b1))
      [] expr.tag = "Byte" ->
            LET b1 == InsV(bb, Instr("iconst", "i8", expr.num, << >>, 0))
            IN  Ret(b1, LastVal(b1))
      [] expr.tag = "Cond" ->
            build_branch2(env, ref, bb,
                [cond |-> expr.cond, pass |-> expr.pass, fail |-> expr.fail,
                 cond_layout |-> expr.cond_layout, ret_layout |-> expr.ret_layout])
      [] expr.tag = "Switch" ->
            build_switch(env, ref, bb,
                [cond_layout |-> expr.cond_layout, cond_expr |-> expr.cond,
                 branches |-> expr.branches, default_branch |-> expr.default_branch,
                 ret_type |-> type_from_layout(env, expr.ret_layout)])
      [] expr.tag = "Store" ->
            LET c == scope_clone(bb, ref)
                sl == store_loop(env, c.ref, c.b, expr.stores, 1)
                r == build_expr(env, sl.local, sl.b, expr.ret)
                \* observation: whether the caller's Scope object is as it was
                kept == IF r.b.scopes[ref] = bb.scopes[ref] THEN 1 ELSE 0
                b1 == IF r.b.err # "" THEN r.b
                      ELSE [r.b EXCEPT !.log = Append(@, Event("store_ret", kept))]
            IN  Ret(b1, r.val)
      [] expr.tag = "CallByName" -> call_by_name(env, expr.symbol, expr.args, ref, bb)
      [] expr.tag = "FunctionPointer" -> build_function_pointer(env, ref, bb, expr.name)
      [] expr.tag = "CallByPointer" ->
            LET ra == build_args(env, ref, bb, expr.args, 1, << >>)
                s == sig_from_layout(env, ra.b, expr.layout)
                rc == build_expr(env, ref, s.b, expr.sub_expr)
                b1 == IF rc.b.err # "" THEN rc.b
                      ELSE [rc.b EXCEPT !.log = Append(@, Event("import_signature", 0))]
                ret_type == IF s.sig.returns = << >> THEN "" ELSE s.sig.returns[1]
                b2 == InsV(b1, Instr("call_indirect", ret_type, 0, <<rc.val>> \o ra.vals, 0))
            IN  Ret(b2, LastVal(b2))
      [] expr.tag = "Load" -> build_load(ref, bb, expr.name)
      [] expr.tag = "Struct" ->
            LET sorted_fields == sort_by_key(expr.fields)
                b1 == create_stack_slot(bb, stack_size(expr.layout, env.pointer_bytes))
                slot == LastSlot(b1)
                b2 == struct_loop(env, ref, b1, sorted_fields, slot, 0)
                ir_type == type_from_layout(env, expr.layout)
                b3 == InsV(b2, Instr("stack_addr", ir_type, 0, << >>, slot))
            IN  Ret(b3, LastVal(b3))
      [] expr.tag = "Str" ->
            IF expr.bytes = << >> THEN Ret(Panic(bb, "TODO build an empty string in Crane"), 0)
            ELSE LET bytes_len == Len(expr.bytes) + 1
                     rp == call_malloc(env, bb, bytes_len)
                     b1 == str_loop(rp.b, expr.bytes, rp.val, 0)
                     b2 == InsV(b1, Instr("iconst", "i8", 0, << >>, 0))
                     b3 == Ins(b2, Instr("store", "", bytes_len - 1, <<LastVal(b2), rp.val>>, 0))
                 IN  Ret(b3, rp.val)
      [] expr.tag = "Array" ->
            IF expr.elems = << >> THEN Ret(Panic(bb, "TODO build an empty Array in Crane"), 0)
            ELSE LET elem_bytes == stack_size(expr.elem_layout, env.pointer_bytes)
                     bytes_len == (elem_bytes * Len(expr.elems)) + 1
                     rp == call_malloc(env, bb, bytes_len)
                     b1 == array_loop(env, ref, rp.b, expr.elems, elem_bytes, rp.val, 0)
                     b2 == InsV(b1, Instr("iconst", "i8", 0, << >>, 0))
                     b3 == Ins(b2, Instr("store", "", bytes_len - 1, <<LastVal(b2), rp.val>>, 0))
                 IN  Ret(b3, rp.val)
      [] OTHER -> Ret(Panic(bb, "I don't yet know how to crane build"), 0)

(***************************************************************************)
(* The module (cranelift_module::Module): the declared functions and data  *)
(* objects by name, and the functions defined so far.  A FuncId is the     *)
(* index of the declaration.                                               *)
(***************************************************************************)
Decl(name, kind, sig) == [name |-> name, kind |-> kind, sig |-> sig]

SigF == Signature(<<"i64">>, <<"i64">>)
SigG == Signature(<<"i64", "i64">>, <<"i64">>)

BaseDecls ==
    <<Decl("malloc", "func", SigF), Decl("f", "func", SigF), Decl("g", "func", SigG)>>

\* the module before the Proc is declared: of the functions it knows, g is
\* defined already
NewModule(extra) == [decls |-> BaseDecls \o extra, defined |-> {3}, code |-> << >>]

\* Symbol::ident_string: the interned name of the symbol, without its module
ident_string(symbol) == symbol.ident

\* Module::declare_function
declare_function(mod, name, sig) ==
    IF \E i \in 1..Len(mod.decls) : mod.decls[i].name = name
    THEN LET i == CHOOSE i \in 1..Len(mod.decls) : mod.decls[i].name = name
         IN  IF mod.decls[i].kind # "func"
             THEN [module |-> mod, fn_id |-> 0, err |-> "IncompatibleDeclaration"]
             ELSE IF mod.decls[i].sig # sig
             THEN [module |-> mod, fn_id |-> 0, err |-> "IncompatibleSignature"]
             ELSE [module |-> mod, fn_id |-> i, err |-> ""]
    ELSE [module |-> [mod EXCEPT !.decls = Append(@, Decl(name, "func", sig))],
          fn_id |-> Len(mod.decls) + 1, err |-> ""]

\* declare_proc pushing the parameter types in reverse
declare_proc_rev(env, mod, symbol, proc) ==
    LET args == proc.args
        ret_type == type_from_layout(env, proc.ret_layout)
        sig == Signature([i \in 1..Len(args) |->
                             type_from_layout(env, args[Len(args) + 1 - i].layout)],
                         <<ret_type>>)
        d == declare_function(mod, ident_string(symbol), sig)
    IN  [module |-> d.module, fn_id |-> d.fn_id, sig |-> sig,
         err |-> IF d.err # "" THEN "Error when building function" ELSE ""]

\* fn declare_proc
declare_proc(env, mod, symbol, proc) ==
    LET args == proc.args
        ret_type == type_from_layout(env, proc.ret_layout)
        sig == Signature([i \in 1..Len(args) |-> type_from_layout(env, args[i].layout)],
                         <<ret_type>>)
        d == declare_function(mod, ident_string(symbol), sig)
    IN  [module |-> d.module, fn_id |-> d.fn_id, sig |-> sig,
         err |-> IF d.err # "" THEN "Error when building function" ELSE ""]

(***************************************************************************)
(* define_proc_body, step by step.                                         *)
(***************************************************************************)
\* add_args leaving alone a symbol the scope binds already
RECURSIVE add_args_keep(_, _, _, _, _, _)
add_args_keep(env, bb, ref, nparams, args, i) ==
    IF i > nparams \/ i > Len(args) THEN bb
    ELSE LET expr_type == type_from_layout(env, args[i].layout)
         IN  add_args_keep(env,
                 IF ScopeHas(bb, ref, args[i].symbol) THEN bb
                 ELSE scope_insert(bb, ref, args[i].symbol, ArgEntry(expr_type, i)),
                 ref, nparams, args, i + 1)

RECURSIVE add_args(_, _, _, _, _, _)
\* the loop "Add args to scope": block params zipped with the Proc's args
add_args(env, bb, ref, nparams, args, i) ==
    IF i > nparams \/ i > Len(args) THEN bb
    ELSE LET expr_type == type_from_layout(env, args[i].layout)
         IN  add_args(env, scope_insert(bb, ref, args[i].symbol, ArgEntry(expr_type, i)),
                      ref, nparams, args, i + 1)

\* define_proc_body up to the lowering of the body: the scope is cloned, the
\* entry block gets the parameters of the signature, the arguments are bound
define_entry(env, scope, sig, proc) ==
    LET c == scope_clone(NewBuilder(scope), 1)
        b1 == create_block(c.b)
        block == LastBlock(b1)
        b2 == switch_to_block(b1, block)
        b3 == [b2 EXCEPT !.vtypes = sig.params,
                         !.log = Append(@, Event("append_block_params", block))]
        b4 == add_args(env, b3, c.ref, Len(sig.params), proc.args, 1)
    IN  [b |-> b4, ref |-> c.ref]

\* builder.ins().return_(&[body])
define_return(bb, val) == Ins(bb, Instr("return", "", 0, <<val>>, 0))

\* builder.seal_all_blocks()
seal_all_blocks(bb) ==
    [bb EXCEPT !.sealed = 1..Len(bb.blocks),
               !.log = Append(@, Event("seal_all_blocks", Len(bb.blocks)))]

\* builder.finalize()
finalize(bb) == [bb EXCEPT !.finalized = TRUE, !.log = Append(@, Event("finalize", 0))]

AllInstrs(blocks) ==
    UNION {{blocks[k][i] : i \in 1..Len(blocks[k])} : k \in 1..Len(blocks)}

\* the verifier run by Module::define_function: every value, stack slot,
\* block and function an instruction names exists, a value is defined before
\* the instruction that uses it, every block is terminated, the value
\* returned has the type of the signature, and a value a block passes to the
\* variable read in its successor has the type of that read
Verifies(mod, fn_id, bb) ==
    /\ \A k \in 1..Len(bb.blocks) :
          /\ bb.blocks[k] # << >>
          /\ bb.blocks[k][Len(bb.blocks[k])].op \in {"jump", "return", "switch"}
          /\ \A i \in 1..Len(bb.blocks[k]) :
                /\ bb.blocks[k][i].op = "return" =>
                      <<ValType(bb, bb.blocks[k][i].args[1])>> = mod.decls[fn_id].sig.returns
                /\ bb.blocks[k][i].op = "def_var" =>
                      LET j == bb.blocks[k][Len(bb.blocks[k])]
                      IN  /\ j.op = "jump"
                          /\ j.tgt \in 1..Len(bb.blocks)
                          /\ bb.blocks[j.tgt] # << >>
                          /\ bb.blocks[j.tgt][1].op = "use_var"
                          /\ bb.blocks[j.tgt][1].ty = bb.blocks[k][i].ty
    /\ \A i \in AllInstrs(bb.blocks) :
          /\ \A a \in 1..Len(i.args) :
                /\ i.args[a] \in 1..Len(bb.vtypes)
                /\ i.res # 0 => i.args[a] < i.res
          /\ i.op \in {"stack_store", "stack_load", "stack_addr"} => i.tgt \in 1..Len(bb.slots)
          /\ i.op \in {"jump", "brnz", "switch"} => i.tgt \in 1..Len(bb.blocks)
          /\ i.op \in {"call", "func_addr"} => i.tgt \in 1..Len(mod.decls)
          /\ i.op = "call" =>
                [a \in 1..Len(i.args) |-> ValType(bb, i.args[a])] = mod.decls[i.tgt].sig.params

\* Module::define_function(fn_id, ctx)
define_function(mod, fn_id, bb) ==
    IF fn_id \in mod.defined
    THEN [module |-> mod, err |-> "DuplicateDefinition"]
    ELSE IF ~Verifies(mod, fn_id, bb)
    THEN [module |-> mod, err |-> "Compilation"]
    ELSE [module |-> [mod EXCEPT !.defined = @ \cup {fn_id},
                                 !.code = (fn_id :> bb.blocks) @@ @],
          err |-> ""]

NewContext == [signature |-> Signature(<< >>, << >>), name |-> 0, has_func |-> FALSE]

(***************************************************************************)
(* An interpreter of a defined function, one block per step.               *)
(***************************************************************************)
SetAt(f, k, v) == (k :> v) @@ f

ReadAt(f, k, junk) == IF k \in DOMAIN f THEN f[k] ELSE junk

RECURSIVE SumSeq(_)
SumSeq(sq) == IF sq = << >> THEN 0 ELSE Head(sq) + SumSeq(Tail(sq))

\* the functions other than the one under test are opaque: a fixed function
\* of the callee and the arguments
CalleeResult(fn_id, argv) == fn_id + SumSeq(argv)

FuncAddr(fn_id) == 50000 + fn_id
StackAddr(slot) == 10000 + (100 * slot)
MallocAddr(n) == 100 * (n + 1)

NewExec(argv, junk) ==
    [status |-> "run", blk |-> 1, vals |-> argv, var0 |-> << >>, stack |-> << >>,
     heap |-> << >>, nalloc |-> 0, visited |-> <<1>>, result |-> 0, junk |-> junk,
     argv |-> argv]

IdleExec ==
    [status |-> "idle", blk |-> 0, vals |-> << >>, var0 |-> << >>, stack |-> << >>,
     heap |-> << >>, nalloc |-> 0, visited |-> << >>, result |-> 0, junk |-> 0,
     argv |-> << >>]

Goto(e, block) == [e EXCEPT !.blk = block, !.visited = Append(@, block)]

SwitchTarget(tbl, d, default) ==
    IF \E k \in 1..Len(tbl) : tbl[k][1] = d
    THEN tbl[CHOOSE k \in 1..Len(tbl) : tbl[k][1] = d][2]
    ELSE default

RECURSIVE exec_from(_, _, _)
exec_from(code, e, i) ==
    IF i > Len(code[e.blk]) THEN [e EXCEPT !.status = "trap"]
    ELSE
    LET ins == code[e.blk][i]
        v(k) == e.vals[ins.args[k]]
        def(r) == exec_from(code, [e EXCEPT !.vals = SetAt(@, ins.res, r)], i + 1)
    IN  CASE ins.op \in {"iconst", "f64const", "bconst"} -> def(ins.imm)
          [] ins.op \in {"iadd", "fadd"} -> def(v(1) + v(2))
          [] ins.op \in {"isub", "fsub"} -> def(v(1) - v(2))
          [] ins.op = "imul" -> def(v(1) * v(2))
          [] ins.op = "ineg" -> def(0 - v(1))
          [] ins.op \in {"icmp", "fcmp"} -> def(IF v(1) = v(2) THEN 1 ELSE 0)
          [] ins.op = "stack_store" ->
                exec_from(code, [e EXCEPT !.stack = SetAt(@, <<ins.tgt, ins.imm>>, v(1))], i + 1)
          [] ins.op = "stack_load" -> def(ReadAt(e.stack, <<ins.tgt, ins.imm>>, e.junk))
          [] ins.op = "stack_addr" -> def(StackAddr(ins.tgt))
          [] ins.op = "load" -> def(ReadAt(e.heap, v(1) + ins.imm, e.junk))
          [] ins.op = "store" ->
                exec_from(code, [e EXCEPT !.heap = SetAt(@, v(2) + ins.imm, v(1))], i + 1)
          [] ins.op = "load_complex" -> def(ReadAt(e.heap, v(1) + v(2) + ins.imm, e.junk))
          [] ins.op = "store_complex" ->
                exec_from(code, [e EXCEPT !.heap = SetAt(@, v(2) + v(3) + ins.imm, v(1))], i + 1)
          [] ins.op = "call" ->
                IF ins.tgt = MallocId
                THEN exec_from(code, [e EXCEPT !.vals = SetAt(@, ins.res, MallocAddr(e.nalloc)),
                                               !.nalloc = @ + 1], i + 1)
                ELSE def(CalleeResult(ins.tgt, [k \in 1..Len(ins.args) |-> v(k)]))
          [] ins.op = "call_indirect" ->
                def(CalleeResult(v(1) - FuncAddr(0),
                                 [k \in 1..(Len(ins.args) - 1) |-> v(k + 1)]))
          [] ins.op = "func_addr" -> def(FuncAddr(ins.tgt))
          [] ins.op = "def_var" -> exec_from(code, [e EXCEPT !.var0 = <<v(1)>>], i + 1)
          [] ins.op = "use_var" -> def(IF e.var0 = << >> THEN e.junk ELSE e.var0[1])
          [] ins.op = "brnz" ->
                IF v(1) # 0 THEN Goto(e, ins.tgt) ELSE exec_from(code, e, i + 1)
          [] ins.op = "jump" -> Goto(e, ins.tgt)
          [] ins.op = "switch" -> Goto(e, SwitchTarget(ins.tbl, v(1), ins.tgt))
          [] ins.op = "return" -> [e EXCEPT !.status = "returned", !.result = v(1)]
          [] OTHER -> [e EXCEPT !.status = "trap"]

\* one step of the execution: the current block, up to its control transfer
exec_block(code, e) == exec_from(code, e, 1)

(***************************************************************************)
(* The inputs: Procs, each with the scope and the module it is built in.   *)
(***************************************************************************)
ProcSymbol(ident) == [module |-> "Test", ident |-> ident]

Proc(ident, args, body_expr, ret_layout) ==
    [symbol |-> ProcSymbol(ident), args |-> args, body |-> body_expr,
     ret_layout |-> ret_layout]

Input(proc, scope, extra, debug_assertions) ==
    [proc |-> proc, scope |-> scope, extra |-> extra, env |-> Env(debug_assertions)]

FuncScope == ("f" :> FuncEntry(SigF, 2)) @@ ("g" :> FuncEntry(SigG, 3))

Lits == {ExprInt(n) : n \in 1..MaxLit}
Bools == {ExprBool(TRUE), ExprBool(FALSE)}

ArgX == <<Param(Int64L, "x")>>
ArgU == <<Param(Int64L, "u")>>
ArgPX == <<Param(BoolL, "p"), Param(Int64L, "x")>>

Add(e1, e2) == ExprCallByName("NUM_ADD", <<Arg(e1, Int64L), Arg(e2, Int64L)>>)
Eq(e1, e2) == ExprCallByName("INT_EQ_I64", <<Arg(e1, Int64L), Arg(e2, Int64L)>>)
CondOf(c, p, f) == ExprCond(c, BoolL, p, f, Int64L)

\* binding sequences: one or two bindings of u and v
StoreInits ==
    {ExprInt(1), ExprLoad("u"), ExprLoad("v"), ExprLoad("x"), Add(ExprLoad("v"), ExprInt(1))}
StoreBindings == {Binding(n, Int64L, e) : n \in {"u", "v"}, e \in StoreInits}
StoreBodies ==
    {ExprStore(<<s1>>, r) : s1 \in StoreBindings, r \in {ExprLoad("u"), ExprLoad("v")}}
    \cup {ExprStore(<<s1, s2>>, r) :
            s1 \in StoreBindings, s2 \in StoreBindings, r \in {ExprLoad("u"), ExprLoad("v")}}
StoreInputs ==
    {Input(Proc("main", a, e, Int64L), FuncScope, << >>, TRUE) :
        a \in {ArgX, ArgU}, e \in StoreBodies}

\* a binding sequence inside a call argument, a conditional, a record field,
\* an array element, a discriminant or an initializer, followed by a sibling
StoreU == ExprStore(<<Binding("u", Int64L, ExprInt(1))>>, ExprLoad("u"))
StoreUBool == ExprStore(<<Binding("u", BoolL, ExprBool(TRUE))>>, ExprLoad("u"))
SiblingBodies ==
    {ExprCallByName("g", <<Arg(StoreU, Int64L), Arg(ExprLoad("u"), Int64L)>>),
     Add(StoreU, ExprLoad("u")),
     CondOf(ExprBool(TRUE), StoreU, ExprLoad("u")),
     CondOf(StoreUBool, ExprLoad("u"), ExprInt(1)),
     ExprStruct(StructOf(<<"Int64", "Int64">>),
                <<Field("a", StoreU), Field("b", ExprLoad("u"))>>),
     ExprArray(Int64L, <<StoreU, ExprLoad("u")>>),
     ExprSwitch(StoreU, Int64L, <<Branch(1, ExprLoad("u"))>>, ExprInt(2), Int64L),
     ExprStore(<<Binding("v", Int64L, StoreU)>>, ExprLoad("u")),
     ExprCallByPointer(ExprFunctionPointer("g"), <<StoreU, ExprLoad("u")>>,
                       FnPtrOf(<<"Int64", "Int64">>, "Int64"))}
SiblingInputs ==
    {Input(Proc("main", a, e, Int64L), FuncScope, << >>, TRUE) :
        a \in {ArgX, ArgU}, e \in SiblingBodies}

\* two-way conditionals
NestedCond == ExprCond(ExprLoad("p"), BoolL, ExprBool(FALSE), ExprBool(TRUE), BoolL)
CondConds ==
    Bools \cup {ExprLoad("p"), NestedCond, Eq(ExprLoad("x"), ExprInt(1))}
CondArms ==
    Lits \cup {ExprLoad("x"), CondOf(ExprLoad("p"), ExprInt(1), ExprLoad("x")),
               Add(ExprLoad("x"), ExprInt(1))}
CondBodies ==
    {CondOf(c, p, f) : c \in CondConds, p \in CondArms, f \in CondArms}
    \cup {ExprCond(c, Int64L, ExprInt(1), ExprInt(2), Int64L) :
            c \in {ExprBool(TRUE), ExprLoad("x")}}
BoolCondBodies ==
    {ExprCond(c, BoolL, p, f, BoolL) :
        c \in {ExprLoad("p"), NestedCond}, p \in Bools \cup {ExprLoad("p")},
        f \in Bools \cup {ExprLoad("p")}}
CondInputs ==
    {Input(Proc("main", ArgPX, e, Int64L), FuncScope, << >>, TRUE) : e \in CondBodies}
    \cup {Input(Proc("main", ArgPX, e, BoolL), FuncScope, << >>, TRUE) : e \in BoolCondBodies}
    \cup {Input(Proc("main", ArgPX, CondOf(NestedCond, ExprInt(1), ExprInt(2)), Int64L),
                FuncScope, << >>, FALSE)}

\* multi-way switches: zero to two explicit branches and a default
SwitchConds ==
    {ExprInt(1), ExprLoad("x"), CondOf(ExprLoad("p"), ExprInt(0), ExprInt(1))}
SwitchBranches ==
    {Branch(v, e) : v \in 0..MaxArgVal, e \in Lits \cup {ExprLoad("x")}}
SwitchTables ==
    {<< >>} \cup {<<b1>> : b1 \in SwitchBranches}
            \cup {<<b1, b2>> : b1 \in SwitchBranches, b2 \in SwitchBranches}
SwitchBodies ==
    {ExprSwitch(c, Int64L, t, d, Int64L) :
        c \in SwitchConds, t \in SwitchTables,
        d \in {ExprInt(MaxLit), Add(ExprLoad("x"), ExprInt(1))}}
SwitchInputs ==
    {Input(Proc("main", ArgPX, e, Int64L), FuncScope, << >>, TRUE) : e \in SwitchBodies}

\* records: the fields a, b, c in every order, with integer literals
FieldNames == {"a", "b", "c"}
FieldOrders ==
    {sq \in UNION {[1..n -> FieldNames] : n \in 1..3} :
        \A i \in DOMAIN sq, j \in DOMAIN sq : sq[i] = sq[j] => i = j}
StructBodies ==
    {ExprStruct(StructOf([i \in DOMAIN sq |-> "Int64"]),
                [i \in DOMAIN sq |-> Field(sq[i], ExprInt(val[sq[i]]))]) :
        sq \in FieldOrders, val \in [FieldNames -> 1..MaxLit]}
    \cup {ExprStruct(StructOf(<<"Int64", el[2]>>), <<Field("b", el[1]), Field("a", ExprInt(1))>>) :
            el \in {<<ExprLoad("x"), "Int64">>, <<ExprBool(TRUE), "Bool">>,
                    <<ExprFloat(1), "Float64">>, <<Add(ExprLoad("x"), ExprInt(1)), "Int64">>}}
StructInputs ==
    {Input(Proc("main", ArgX, e, StructOf(<<"Int64">>)), FuncScope, << >>, TRUE) :
        e \in StructBodies}

\* loads under every kind of descriptor
MixedScope ==
    ("h" :> HeapEntry("i64", 1)) @@ ("s" :> StackEntry("i64", 1)) @@ FuncScope
ShadowScopes ==
    {("x" :> e) @@ FuncScope :
        e \in {FuncEntry(SigF, 2), HeapEntry("i64", 1), StackEntry("i64", 1)}}
LoadInputs ==
    {Input(Proc("main", a, ExprLoad(n), Int64L), sc, << >>, TRUE) :
        a \in {<< >>, ArgX, ArgPX}, n \in {"x", "p", "f", "h", "s", "z"},
        sc \in {EmptyScope, FuncScope, MixedScope} \cup ShadowScopes}

\* named calls: builtins and functions, under scopes that bind the builtins
BuiltinScope == [sy \in Builtins |-> FuncEntry(SigG, 3)] @@ MixedScope
CallArgs ==
    {<< >>} \cup {<<Arg(e1, Int64L)>> : e1 \in {ExprInt(1), ExprLoad("x")}}
            \cup {<<Arg(e1, Int64L), Arg(e2, Int64L)>> :
                    e1 \in {ExprInt(1), ExprLoad("x")}, e2 \in {ExprInt(2), ExprLoad("z")}}
ListArgs ==
    {<<Arg(l, ListOf(k)), Arg(ExprInt(1), Int64L), Arg(e, Int64L)>> :
        l \in {ExprLoad("x"), ExprLoad("z")}, e \in {ExprInt(2), ExprLoad("z")},
        k \in {"Int64", "Bool"}}
\* zero to four literal arguments, the first with a scalar or a list layout
ArityArgs ==
    {[i \in 1..n |-> Arg(IF i = 1 THEN ExprLoad("x") ELSE ExprInt(1),
                          IF i = 1 THEN l ELSE Int64L)] :
        n \in 0..4, l \in {Int64L, ListOf("Int64"), ListOf("Byte")}}
CallInputs ==
    {Input(Proc("main", ArgX, ExprCallByName(sy, a), Int64L), sc, << >>, TRUE) :
        sy \in Builtins \cup {"f", "g", "x", "h", "s", "z"}, a \in CallArgs,
        sc \in {MixedScope, BuiltinScope}}
    \cup {Input(Proc("main", ArgX, ExprCallByName(sy, a), Int64L), sc, << >>, d) :
            sy \in {"LIST_GET_UNSAFE", "LIST_SET", "LIST_SET_IN_PLACE", "g"}, a \in ListArgs,
            sc \in {MixedScope, BuiltinScope}, d \in BOOLEAN}
    \cup {Input(Proc("main", ArgX, ExprCallByName(sy, a), Int64L), MixedScope, << >>, d) :
            sy \in Builtins, a \in ArityArgs, d \in BOOLEAN}

\* reads and in-place writes of array literals of one to three integers
ArgXY == <<Param(Int64L, "x"), Param(Int64L, "y")>>
ListLit(n) == ExprArray(Int64L, SubSeq(<<ExprInt(10), ExprInt(20), ExprInt(30)>>, 1, n))
ListGet(l, i) == ExprCallByName("LIST_GET_UNSAFE", <<Arg(l, ListOf("Int64")), Arg(i, Int64L)>>)
ListSetInPlace(l, i, v) ==
    ExprCallByName("LIST_SET_IN_PLACE",
                   <<Arg(l, ListOf("Int64")), Arg(i, Int64L), Arg(v, Int64L)>>)
ListIndexes == {ExprInt(0), ExprLoad("x"), ExprLoad("y")}
ListGetBodies ==
    {ListGet(ListLit(n), i) : n \in 1..3, i \in ListIndexes}
    \cup {ListGet(ListSetInPlace(ListLit(n), i, v), j) :
            n \in 1..3, i \in ListIndexes, j \in ListIndexes,
            v \in {ExprInt(99), ExprLoad("y")}}
ListSetBodies ==
    {ListSetInPlace(ListLit(n), i, v) :
        n \in 1..3, i \in ListIndexes, v \in {ExprInt(99), ExprLoad("y")}}
ListInputs ==
    {Input(Proc("main", ArgXY, e, Int64L), FuncScope, << >>, TRUE) : e \in ListGetBodies}
    \cup {Input(Proc("main", ArgXY, e, ListOf("Int64")), FuncScope, << >>, TRUE) :
            e \in ListSetBodies}

\* string literals of one to three bytes, array literals of one to three
\* elements of 8 bytes and of 1 byte
StrBodies ==
    {ExprStr(sq) : sq \in UNION {[1..n -> {104, 105}] : n \in 1..3}}
ArrayBodies ==
    {ListLit(n) : n \in 1..3}
    \cup {ExprArray(ByteL, [i \in 1..n |-> ExprByte(i)]) : n \in 1..3}
LiteralInputs ==
    {Input(Proc("main", ArgX, e, ListOf("Byte")), FuncScope, << >>, TRUE) :
        e \in StrBodies \cup ArrayBodies}

\* indirect calls of a function pointer on one or two arguments
PointerBodies ==
    {ExprCallByPointer(ExprFunctionPointer(fn), a, FnPtrOf([i \in 1..Len(a) |-> "Int64"], "Int64")) :
        fn \in {"f", "g", "z"},
        a \in {<<ExprInt(1)>>, <<ExprInt(1), ExprInt(2)>>, <<ExprLoad("x"), ExprInt(2)>>,
               <<ExprLoad("z")>>}}
PointerInputs ==
    {Input(Proc("main", ArgX, e, Int64L), FuncScope, << >>, TRUE) : e \in PointerBodies}

\* the expressions build_expr has no lowering for
FailBodies ==
    {ExprStr(<< >>), ExprArray(Int64L, << >>), ExprArray(ByteL, << >>), ExprAccess("a"),
     ExprFunctionPointer("x"), ExprFunctionPointer("z"), ExprFunctionPointer("h"),
     ExprFunctionPointer("s")}
    \cup {ExprCond(c, l, ExprInt(1), ExprInt(2), Int64L) :
            c \in {ExprInt(1), ExprLoad("x")}, l \in {Int64L, ByteL, ListOf("Bool")}}
FailInputs ==
    {Input(Proc("main", ArgX, e, Int64L), MixedScope, << >>, d) :
        e \in FailBodies, d \in BOOLEAN}

\* declarations: parameter and return layouts, and names the module knows
DeclLayouts == {Int64L, BoolL, Float64L, ByteL, ListOf("Int64")}
DeclArgs ==
    {<< >>} \cup {<<Param(l1, "x")>> : l1 \in DeclLayouts}
            \cup {<<Param(l1, "x"), Param(l2, "y")>> : l1 \in DeclLayouts, l2 \in DeclLayouts}
DeclExtras ==
    {<< >>, <<Decl("main", "func", SigF)>>, <<Decl("main", "data", Signature(<< >>, << >>))>>}
DeclInputs ==
    {Input(Proc(id, a, ExprInt(1), r), FuncScope, x, TRUE) :
        id \in {"main", "f"}, a \in DeclArgs, r \in {Int64L, BoolL, Float64L},
        x \in DeclExtras}

\* the remaining expression forms
MiscBodies ==
    {ExprFunctionPointer("f"), ExprFunctionPointer("x"), ExprFunctionPointer("z"),
     ExprCallByPointer(ExprFunctionPointer("f"), <<ExprInt(1)>>, FnPtrOf(<<"Int64">>, "Int64")),
     ExprStr(<<104, 105>>), ExprStr(<< >>),
     ExprArray(Int64L, <<ExprInt(1), ExprInt(2)>>), ExprArray(Int64L, << >>),
     ExprAccess("a"), ExprFloat(1), ExprByte(1),
     ExprCallByName("LIST_GET_UNSAFE",
        <<Arg(ExprArray(Int64L, <<ExprInt(1), ExprInt(2)>>), ListOf("Int64")),
          Arg(ExprInt(1), Int64L)>>),
     ExprCallByName("LIST_SET",
        <<Arg(ExprArray(Int64L, <<ExprInt(1), ExprInt(2)>>), ListOf("Int64")),
          Arg(ExprInt(1), Int64L), Arg(ExprInt(2), Int64L)>>),
     ExprCallByName("LIST_SET_IN_PLACE",
        <<Arg(ExprArray(Int64L, <<ExprInt(1), ExprInt(2)>>), ListOf("Int64")),
          Arg(ExprInt(1), Int64L), Arg(ExprInt(2), Int64L)>>)}
MiscInputs ==
    {Input(Proc("main", ArgX, e, Int64L), FuncScope, << >>, d) :
        e \in MiscBodies, d \in BOOLEAN}

\* conditionals and switches nested in a call argument, an arm, a condition
\* and a discriminant
SwitchOf(c, brs, d) == ExprSwitch(c, Int64L, brs, d, Int64L)
NestingBodies ==
    {Add(CondOf(ExprLoad("p"), ExprInt(1), ExprLoad("x")),
         CondOf(Eq(ExprLoad("x"), ExprInt(1)), ExprInt(2), ExprInt(0))),
     Add(SwitchOf(ExprLoad("x"), <<Branch(0, ExprInt(1))>>, ExprInt(2)),
         CondOf(ExprLoad("p"), ExprLoad("x"), ExprInt(0))),
     CondOf(ExprLoad("p"),
            CondOf(Eq(ExprLoad("x"), ExprInt(1)), ExprInt(1), ExprInt(2)),
            Add(CondOf(ExprLoad("p"), ExprInt(2), ExprInt(1)), ExprLoad("x"))),
     CondOf(Eq(CondOf(ExprLoad("p"), ExprInt(1), ExprInt(2)),
               SwitchOf(ExprLoad("x"), <<Branch(1, ExprInt(1))>>, ExprInt(2))),
            ExprLoad("x"), ExprInt(0)),
     SwitchOf(CondOf(ExprLoad("p"), ExprInt(0), ExprInt(1)),
              <<Branch(0, CondOf(Eq(ExprLoad("x"), ExprInt(1)), ExprInt(2), ExprLoad("x"))),
                Branch(1, SwitchOf(ExprLoad("x"), <<Branch(0, ExprInt(1))>>, ExprInt(2)))>>,
              ExprInt(0)),
     SwitchOf(SwitchOf(ExprLoad("x"), <<Branch(0, ExprInt(1))>>, ExprInt(0)),
              <<Branch(1, ExprLoad("x"))>>,
              CondOf(ExprLoad("p"), Add(ExprLoad("x"), ExprInt(1)), ExprInt(2)))}
NestingInputs ==
    {Input(Proc("main", ArgPX, e, Int64L), FuncScope, << >>, d) :
        e \in NestingBodies, d \in BOOLEAN}

Inputs ==
    StoreInputs \cup SiblingInputs \cup CondInputs \cup SwitchInputs \cup StructInputs
    \cup LoadInputs \cup CallInputs \cup DeclInputs \cup MiscInputs \cup ListInputs
    \cup LiteralInputs \cup PointerInputs \cup FailInputs \cup NestingInputs

(***************************************************************************)
(* gen_wasm::wasm_module::serialize: unsigned LEB-128.                     *)
(* A u32 is held as two 16-bit limbs <<hi, lo>> (its value is              *)
(* hi * 2^16 + lo), so that shifts and additions are computed at 32 bits.  *)
(* A byte is a number in 0..255, a buffer a sequence of bytes.             *)
(***************************************************************************)
MAX_SIZE_ENCODED_U32 == 5

MaxSeq == 2
MaxBytes == 6

\* x >= 0x80
u32_ge_0x80(x) == x[1] > 0 \/ x[2] >= 128

\* (x & 0x7f) as u8
u32_low7(x) == x[2] % 128

\* x as u8
u32_as_u8(x) == x[2] % 256

\* x >> 7
u32_shr7(x) == <<x[1] \div 128, (x[1] % 128) * 512 + (x[2] \div 128)>>

\* x << s for s < 32: the bits shifted out of the 32 are lost
RECURSIVE u32_shl(_, _)
u32_shl(x, s) ==
    IF s = 0
    THEN x
    ELSE u32_shl(<<(x[1] * 2 + (x[2] \div 32768)) % 65536, (x[2] * 2) % 65536>>, s - 1)

\* x + y: the wrapped sum, and whether it overflowed 32 bits
u32_add(x, y) ==
    LET lo == x[2] + y[2]
        hi == x[1] + y[1] + (lo \div 65536)
    IN [sum |-> <<hi % 65536, lo % 65536>>, overflow |-> hi >= 65536]

\* the loop of encode_uleb128!(encode_u32, u32), with the append_u8 after it
RECURSIVE encode_loop_gt(_, _)
encode_loop_gt(buffer, x) ==
    IF x[1] > 0 \/ x[2] > 128
    THEN encode_loop_gt(Append(buffer, 128 + u32_low7(x)), u32_shr7(x))
    ELSE Append(buffer, u32_as_u8(x))

RECURSIVE encode_loop(_, _)
encode_loop(buffer, x) ==
    IF u32_ge_0x80(x)
    THEN encode_loop(Append(buffer, 128 + u32_low7(x)), u32_shr7(x))
    ELSE Append(buffer, u32_as_u8(x))

\* SerialBuffer::encode_u32(&mut self, value) -> usize
encode_u32(buffer, value) ==
    LET start_len == Len(buffer)
        out == encode_loop(buffer, value)
    IN [buffer |-> out, ret |-> Len(out) - start_len]

\* Result<(u32, usize), String>, or the panic that ended the call
Ok(value, offset) == [tag |-> "Ok", value |-> value, offset |-> offset, msg |-> << >>]
Err(shown) == [tag |-> "Err", value |-> <<0, 0>>, offset |-> 0, msg |-> shown]
Panicked(why) == [tag |-> "Panic", value |-> <<0, 0>>, offset |-> 0, msg |-> why]

\* bytes.iter().take(n)
take(bytes, n) == SubSeq(bytes, 1, IF Len(bytes) < n THEN Len(bytes) ELSE n)

\* the for loop of decode_u32 over `window`, at index i with value and shift.
\* With overflow checks (a debug build) a shift of 32 or more and an
\* overflowing += panic; without them the shift amount is masked to 5 bits
\* and the sum wraps.
RECURSIVE decode_loop(_, _, _, _, _)
decode_loop(overflow_checks, window, i, value, shift) ==
    IF i >= Len(window)
    THEN Err(window)
    ELSE LET byte == window[i + 1]
             added == u32_add(value, u32_shl(<<0, byte % 128>>, shift % 32))
         IN IF overflow_checks /\ shift >= 32
            THEN Panicked("attempt to shift left with overflow")
            ELSE IF overflow_checks /\ added.overflow
            THEN Panicked("attempt to add with overflow")
            ELSE IF byte \div 128 = 0
            THEN Ok(added.sum, i + 1)
            ELSE decode_loop(overflow_checks, window, i + 1, added.sum, shift + 7)

\* the same with the loop running over every byte of the input
decode_u32_untaken(overflow_checks, bytes) ==
    decode_loop(overflow_checks, bytes, 0, <<0, 0>>, 0)

\* decode_u32(bytes: &[u8]) -> Result<(u32, usize), String>
decode_u32(overflow_checks, bytes) ==
    decode_loop(overflow_checks, take(bytes, MAX_SIZE_ENCODED_U32), 0, <<0, 0>>, 0)

\* parse_u32_or_panic(bytes, cursor) -> u32: the value, the cursor after the
\* call and the panic message ("" when it returned)
parse_u32_or_panic(overflow_checks, bytes, cursor) ==
    IF cursor > Len(bytes)
    THEN [value |-> <<0, 0>>, cursor |-> cursor, panic |-> "range start index out of range"]
    ELSE LET r == decode_u32(overflow_checks, SubSeq(bytes, cursor + 1, Len(bytes)))
         IN IF r.tag = "Ok"
            THEN [value |-> r.value, cursor |-> cursor + r.offset, panic |-> ""]
            ELSE [value |-> <<0, 0>>, cursor |-> cursor,
                  panic |-> IF r.tag = "Err" THEN "Failed to decode u32 as LEB-128" ELSE r.msg]

\* Vec::resize(new_len, fill) of a buffer no longer than new_len
RECURSIVE resize(_, _, _)
resize(buffer, new_len, fill) ==
    IF Len(buffer) >= new_len THEN buffer ELSE resize(Append(buffer, fill), new_len, fill)

\* the loop of overwrite_padded_u32_help over buffer.iter_mut().take(4), from
\* byte i on
RECURSIVE overwrite_help_loop(_, _, _)
overwrite_help_loop(slice, i, x) ==
    IF i < 4 /\ i < Len(slice)
    THEN overwrite_help_loop([slice EXCEPT ![i + 1] = 128 + u32_low7(x)], i + 1, u32_shr7(x))
    ELSE [slice |-> slice, x |-> x]

\* as overwrite_padded_u32_help, but ending at the first byte that holds the
\* rest of the value (the unpadded encoding)
overwrite_padded_u32_help_unpadded(slice, value) ==
    LET enc == encode_loop(<< >>, value)
    IN [i \in 1..Len(slice) |-> IF i <= Len(enc) THEN enc[i] ELSE slice[i]]

\* overwrite_padded_u32_help(buffer: &mut [u8], value: u32), on a slice of
\* MAX_SIZE_ENCODED_U32 bytes: the slice afterwards
overwrite_padded_u32_help(slice, value) ==
    LET r == overwrite_help_loop(slice, 0, value)
    IN [r.slice EXCEPT ![5] = u32_as_u8(r.x)]

\* buffer with the bytes from index (0-based) on replaced by slice
splice(buffer, index, slice) ==
    [i \in 1..Len(buffer) |->
        IF i > index /\ i <= index + Len(slice) THEN slice[i - index] ELSE buffer[i]]

\* SerialBuffer::reserve_padded_u32(&mut self) -> usize
reserve_padded_u32(buffer) ==
    LET index == Len(buffer)
    IN [buffer |-> resize(buffer, index + MAX_SIZE_ENCODED_U32, 255), index |-> index]

\* SerialBuffer::encode_padded_u32(&mut self, value: u32) -> usize
encode_padded_u32(buffer, value) ==
    LET index == Len(buffer)
        new_len == index + MAX_SIZE_ENCODED_U32
        grown == resize(buffer, new_len, 0)
    IN [buffer |-> splice(grown, index,
                          overwrite_padded_u32_help(SubSeq(grown, index + 1, new_len), value)),
        index |-> index]

\* SerialBuffer::overwrite_padded_u32(&mut self, index: usize, value: u32): the
\* buffer afterwards and the panic message ("" when it returned)
overwrite_padded_u32(buffer, index, value) ==
    IF index + MAX_SIZE_ENCODED_U32 > Len(buffer)
    THEN [buffer |-> buffer, panic |-> "range end index out of range"]
    ELSE [buffer |-> splice(buffer, index,
                            overwrite_padded_u32_help(
                                SubSeq(buffer, index + 1, index + MAX_SIZE_ENCODED_U32), value)),
          panic |-> ""]

\* A signed integer (i32, i64) is held as the sequence of its two's-complement
\* bits, lowest first: 32 or 64 of them.

\* (x & 0x7f) as u8
signed_low7(x) == x[1] + 2 * x[2] + 4 * x[3] + 8 * x[4] + 16 * x[5] + 32 * x[6] + 64 * x[7]

\* x >> 7 without the sign: the vacated bits are zero
shr7_logical(x) == SubSeq(x, 8, Len(x)) \o <<0, 0, 0, 0, 0, 0, 0>>

\* x >> 7 of a signed integer: the vacated bits take the sign
sar7(x) ==
    LET sign == x[Len(x)]
    IN SubSeq(x, 8, Len(x)) \o <<sign, sign, sign, sign, sign, sign, sign>>

\* x == 0, x == -1
signed_is_zero(x) == \A i \in 1..Len(x) : x[i] = 0
signed_is_minus_one(x) == \A i \in 1..Len(x) : x[i] = 1

\* the loop of encode_sleb128!
RECURSIVE encode_sleb128_loop(_, _)
encode_sleb128_loop(buffer, x) ==
    LET byte == signed_low7(x)
        shifted == sar7(x)
        byte_is_negative == (byte \div 64) % 2 # 0
    IN IF (signed_is_zero(shifted) /\ ~byte_is_negative)
          \/ (signed_is_minus_one(shifted) /\ byte_is_negative)
       THEN Append(buffer, byte)
       ELSE encode_sleb128_loop(Append(buffer, 128 + byte), shifted)

\* encode_sleb128!($name, $ty): fn $name(&mut self, value: $ty) -> usize
encode_sleb128(buffer, value) ==
    LET start_len == Len(buffer)
        out == encode_sleb128_loop(buffer, value)
    IN [buffer |-> out, ret |-> Len(out) - start_len]

\* encode_sleb128!(encode_i32, i32), encode_sleb128!(encode_i64, i64)
encode_i32(buffer, value) == encode_sleb128(buffer, value)
encode_i64(buffer, value) == encode_sleb128(buffer, value)

\* the for loop of encode_padded_sleb128! with n rounds left, then the last
\* append_u8
RECURSIVE encode_padded_sleb128_loop(_, _, _)
encode_padded_sleb128_loop(buffer, x, n) ==
    IF n > 0
    THEN encode_padded_sleb128_loop(Append(buffer, 128 + signed_low7(x)), sar7(x), n - 1)
    ELSE Append(buffer, signed_low7(x))

\* encode_padded_sleb128!($name, $ty); size_of::<$ty>() is the bytes of x
encode_padded_sleb128(buffer, value) ==
    LET size == ((Len(value) \div 8) \div 4) * MAX_SIZE_ENCODED_U32
    IN encode_padded_sleb128_loop(buffer, value, size - 1)

\* encode_padded_sleb128!(encode_padded_i32, i32), (encode_padded_i64, i64)
encode_padded_i32(buffer, value) == encode_padded_sleb128(buffer, value)
encode_padded_i64(buffer, value) == encode_padded_sleb128(buffer, value)

\* the signed values of w bits encoded: 0, -1, and 2^k, 2^k - 1, -2^k and
\* -2^k - 1 for every k below w (MIN is -2^(w-1), MAX is -2^(w-1) - 1 wrapped)
SignedValues(w) ==
    UNION {{[i \in 1..w |-> IF i = k THEN 1 ELSE 0],
            [i \in 1..w |-> IF i < k THEN 1 ELSE 0],
            [i \in 1..w |-> IF i >= k THEN 1 ELSE 0],
            [i \in 1..w |-> IF i = k THEN 0 ELSE 1]} : k \in 1..w}

\* the u32 values written: the ends of every encoded length
SerialValues ==
    {<<0, 0>>, <<0, 127>>, <<0, 128>>, <<0, 16383>>, <<0, 16384>>, <<31, 65535>>,
     <<32, 0>>, <<4095, 65535>>, <<4096, 0>>, <<65535, 65535>>}

\* the bytes decode_u32 is given: with and without the continuation bit, and
\* fifth bytes whose payload does and does not fit the 32 bits
InputBytes == {0, 15, 127, 128, 255}

ByteSeqs == UNION {[1..n -> InputBytes] : n \in 0..MaxBytes}

\* the u32 values padded: of one, two and five significant groups
PaddedValues == {<<0, 0>>, <<0, 127>>, <<0, 128>>, <<4096, 0>>, <<65535, 65535>>}

\* what the buffer held when a padded u32 was first written into
PaddedPrefix == <<255>>

\* a padded u32 of the buffer: where it is, the value last written there, and
\* whether it is still as reserve_padded_u32 left it
PaddedSlot(index, value, state) == [index |-> index, value |-> value, state |-> state]

\* the serializer's state: an empty buffer being written and parsed, an
\* input handed to decode_u32, a buffer of padded u32s, or a signed value to
\* encode; before and at are the buffer before, and the index of, the last
\* overwrite_padded_u32
Serial(at, overflow_checks, buffer) ==
    [pc |-> at, overflow_checks |-> overflow_checks, buffer |-> buffer,
     values |-> << >>, rets |-> << >>, cursor |-> 0, parsed |-> << >>,
     steps |-> << >>, result |-> Err(<< >>), panic |-> "",
     slots |-> << >>, before |-> buffer, at |-> 0, signed |-> << >>]

\* the serializer about to encode a signed value into an empty buffer
SerialSigned(value) == [Serial("signed", FALSE, << >>) EXCEPT !.signed = value]

IdleSerial == Serial("off", FALSE, << >>)

(***************************************************************************)
(* The state machine: declare_proc, define_proc_body, then runs of the     *)
(* defined function.                                                       *)
(***************************************************************************)
NoDecl == [fn_id |-> 0, sig |-> Signature(<< >>, << >>)]

Init ==
    /\ inp \in Inputs
    /\ pc = "declare"
    /\ module = NewModule(inp.extra)
    /\ ctx = NewContext
    /\ decl = NoDecl
    /\ b = NewBuilder(inp.scope)
    /\ sref = 1
    /\ body = 0
    /\ panic = ""
    /\ ex = IdleExec
    /\ ser = IdleSerial

\* declare_proc(env, module, symbol, proc)
DeclareProc ==
    /\ pc = "declare"
    /\ LET d == declare_proc(inp.env, module, inp.proc.symbol, inp.proc)
       IN  IF d.err # ""
           THEN /\ pc' = "panic"
                /\ panic' = d.err
                /\ UNCHANGED <<module, decl>>
           ELSE /\ pc' = "entry"
                /\ module' = d.module
                /\ decl' = [fn_id |-> d.fn_id, sig |-> d.sig]
                /\ UNCHANGED panic
    /\ UNCHANGED <<inp, ctx, b, sref, body, ex, ser>>

\* define_proc_body: the scope clone, the entry block and the arguments
DefineEntry ==
    /\ pc = "entry"
    /\ LET r == define_entry(inp.env, inp.scope, decl.sig, inp.proc)
       IN  /\ b' = r.b
           /\ sref' = r.ref
    /\ ctx' = [signature |-> decl.sig, name |-> decl.fn_id, has_func |-> TRUE]
    /\ pc' = "body"
    /\ UNCHANGED <<inp, module, decl, body, panic, ex, ser>>

\* DefineBody going on to the return after a panic of build_expr
DefineBodyContinue ==
    /\ pc = "body"
    /\ LET r == build_expr(inp.env, sref, b, inp.proc.body)
       IN  /\ b' = [r.b EXCEPT !.err = ""]
           /\ body' = r.val
           /\ pc' = "return"
           /\ panic' = r.b.err
    /\ UNCHANGED <<inp, module, ctx, decl, sref, ex, ser>>

\* define_proc_body: build_expr of the body
DefineBody ==
    /\ pc = "body"
    /\ LET r == build_expr(inp.env, sref, b, inp.proc.body)
       IN  /\ b' = r.b
           /\ body' = r.val
           /\ pc' = IF r.b.err # "" THEN "panic" ELSE "return"
           /\ panic' = r.b.err
    /\ UNCHANGED <<inp, module, ctx, decl, sref, ex, ser>>

\* define_proc_body: the return instruction
DefineReturn ==
    /\ pc = "return"
    /\ b' = define_return(b, body)
    /\ pc' = "seal"
    /\ UNCHANGED <<inp, module, ctx, decl, sref, body, panic, ex, ser>>

\* define_proc_body: builder.seal_all_blocks()
DefineSealAll ==
    /\ pc = "seal"
    /\ b' = seal_all_blocks(b)
    /\ pc' = "finalize"
    /\ UNCHANGED <<inp, module, ctx, decl, sref, body, panic, ex, ser>>

\* define_proc_body: builder.finalize()
DefineFinalize ==
    /\ pc = "finalize"
    /\ b' = finalize(b)
    /\ pc' = "define"
    /\ UNCHANGED <<inp, module, ctx, decl, sref, body, panic, ex, ser>>

\* define_proc_body: module.define_function(fn_id, ctx)
DefineFunction ==
    /\ pc = "define"
    /\ LET d == define_function(module, decl.fn_id, b)
       IN  /\ module' = d.module
           /\ panic' = IF d.err # "" THEN "Defining Cranelift function failed" ELSE ""
           /\ pc' = IF d.err # "" THEN "panic" ELSE "clear"
    /\ UNCHANGED <<inp, ctx, decl, b, sref, body, ex, ser>>

\* define_proc_body: module.clear_context(ctx)
ClearContext ==
    /\ pc = "clear"
    /\ ctx' = NewContext
    /\ pc' = "defined"
    /\ UNCHANGED <<inp, module, decl, b, sref, body, panic, ex, ser>>

ArgVals(params) ==
    {av \in [1..Len(params) -> 0..MaxArgVal] :
        \A i \in 1..Len(params) : params[i] = "b1" => av[i] \in {0, 1}}

\* whether a run can read memory the function did not write
ReadsForeign(code) ==
    \E i \in AllInstrs(code) :
        \/ i.op \in {"load", "load_complex"}
        \/ /\ i.op = "stack_load"
           /\ ~\E j \in AllInstrs(code) :
                   j.op = "stack_store" /\ j.tgt = i.tgt /\ j.imm = i.imm

\* a call of the defined function
ExecStart ==
    /\ pc = "defined"
    /\ \E argv \in ArgVals(decl.sig.params) :
       \E junk \in (IF ReadsForeign(module.code[decl.fn_id]) THEN 0..MaxArgVal ELSE {0}) :
          ex' = NewExec(argv, junk)
    /\ pc' = "run"
    /\ UNCHANGED <<inp, module, ctx, decl, b, sref, body, panic, ser>>

\* the run executes its current block
ExecBlock ==
    /\ pc = "run"
    /\ ex.status = "run"
    /\ ex' = exec_block(module.code[decl.fn_id], ex)
    /\ UNCHANGED <<pc, inp, module, ctx, decl, b, sref, body, panic, ser>>

Next ==
    \/ DeclareProc
    \/ DefineEntry
    \/ DefineBody
    \/ DefineReturn
    \/ DefineSealAll
    \/ DefineFinalize
    \/ DefineFunction
    \/ ClearContext
    \/ ExecStart
    \/ ExecBlock

Spec == Init /\ [][Next]_vars

(***************************************************************************)
(* The serializer's state machine: encode_u32 appends to a buffer that     *)
(* parse_u32_or_panic reads through a cursor; decode_u32 is applied to     *)
(* arbitrary bytes; padded u32s are reserved, encoded and overwritten;     *)
(* signed values are encoded, unpadded and padded.                         *)
(***************************************************************************)
SerialInit ==
    /\ pc = "off"
    /\ inp = Input(Proc("main", << >>, ExprInt(0), Int64L), EmptyScope, << >>, FALSE)
    /\ module = NewModule(inp.extra)
    /\ ctx = NewContext
    /\ decl = NoDecl
    /\ b = NewBuilder(inp.scope)
    /\ sref = 1
    /\ body = 0
    /\ panic = ""
    /\ ex = IdleExec
    /\ ser \in {Serial("write", oc, << >>) : oc \in BOOLEAN}
               \cup {Serial("decode", oc, bytes) : oc \in BOOLEAN, bytes \in ByteSeqs}
               \cup {Serial("pad", oc, PaddedPrefix) : oc \in BOOLEAN}
               \cup {SerialSigned(value) : value \in SignedValues(32) \cup SignedValues(64)}

\* buffer.encode_u32(value)
EncodeU32 ==
    /\ ser.pc = "write"
    /\ Len(ser.values) < MaxSeq
    /\ \E value \in SerialValues :
          LET r == encode_u32(ser.buffer, value)
          IN ser' = [ser EXCEPT !.buffer = r.buffer,
                                !.values = Append(@, value),
                                !.rets = Append(@, r.ret)]
    /\ UNCHANGED <<pc, inp, module, ctx, decl, b, sref, body, panic, ex>>

\* parse_u32_or_panic(&buffer, &mut cursor), once per value written
ParseU32 ==
    /\ ser.pc = "write"
    /\ Len(ser.parsed) < Len(ser.values)
    /\ LET r == parse_u32_or_panic(ser.overflow_checks, ser.buffer, ser.cursor)
       IN ser' = IF r.panic # ""
                 THEN [ser EXCEPT !.pc = "panic", !.panic = r.panic]
                 ELSE [ser EXCEPT !.cursor = r.cursor,
                                  !.parsed = Append(@, r.value),
                                  !.steps = Append(@, r.cursor - ser.cursor)]
    /\ UNCHANGED <<pc, inp, module, ctx, decl, b, sref, body, panic, ex>>

\* decode_u32(&bytes)
DecodeU32 ==
    /\ ser.pc = "decode"
    /\ LET r == decode_u32(ser.overflow_checks, ser.buffer)
       IN ser' = IF r.tag = "Panic"
                 THEN [ser EXCEPT !.pc = "panic", !.panic = r.msg]
                 ELSE [ser EXCEPT !.pc = "decoded", !.result = r]
    /\ UNCHANGED <<pc, inp, module, ctx, decl, b, sref, body, panic, ex>>

\* buffer.reserve_padded_u32()
ReservePaddedU32 ==
    /\ ser.pc = "pad"
    /\ ser.panic = ""
    /\ Len(ser.slots) < MaxSeq
    /\ LET r == reserve_padded_u32(ser.buffer)
       IN ser' = [ser EXCEPT !.buffer = r.buffer,
                             !.slots = Append(@, PaddedSlot(r.index, <<0, 0>>, "reserved"))]
    /\ UNCHANGED <<pc, inp, module, ctx, decl, b, sref, body, panic, ex>>

\* buffer.encode_padded_u32(value)
EncodePaddedU32 ==
    /\ ser.pc = "pad"
    /\ ser.panic = ""
    /\ Len(ser.slots) < MaxSeq
    /\ \E value \in PaddedValues :
          LET r == encode_padded_u32(ser.buffer, value)
          IN ser' = [ser EXCEPT !.buffer = r.buffer,
                                !.slots = Append(@, PaddedSlot(r.index, value, "encoded"))]
    /\ UNCHANGED <<pc, inp, module, ctx, decl, b, sref, body, panic, ex>>

\* buffer.overwrite_padded_u32(index, value), once at an index that
\* reserve_padded_u32 or encode_padded_u32 returned
OverwritePaddedU32 ==
    /\ ser.pc = "pad"
    /\ ser.panic = ""
    /\ \E k \in 1..Len(ser.slots), value \in PaddedValues :
          /\ ser.slots[k].state # "overwritten"
          /\ LET r == overwrite_padded_u32(ser.buffer, ser.slots[k].index, value)
             IN ser' = IF r.panic # ""
                       THEN [ser EXCEPT !.panic = r.panic]
                       ELSE [ser EXCEPT !.buffer = r.buffer,
                                        !.slots[k] = PaddedSlot(@.index, value, "overwritten"),
                                        !.before = ser.buffer,
                                        !.at = ser.slots[k].index]
    /\ UNCHANGED <<pc, inp, module, ctx, decl, b, sref, body, panic, ex>>

\* buffer.encode_i32(value)
EncodeI32 ==
    /\ ser.pc = "signed"
    /\ Len(ser.signed) = 32
    /\ LET r == encode_i32(ser.buffer, ser.signed)
       IN ser' = [ser EXCEPT !.pc = "encoded", !.buffer = r.buffer, !.rets = <<r.ret>>]
    /\ UNCHANGED <<pc, inp, module, ctx, decl, b, sref, body, panic, ex>>

\* buffer.encode_i64(value)
EncodeI64 ==
    /\ ser.pc = "signed"
    /\ Len(ser.signed) = 64
    /\ LET r == encode_i64(ser.buffer, ser.signed)
       IN ser' = [ser EXCEPT !.pc = "encoded", !.buffer = r.buffer, !.rets = <<r.ret>>]
    /\ UNCHANGED <<pc, inp, module, ctx, decl, b, sref, body, panic, ex>>

\* buffer.encode_padded_i32(value)
EncodePaddedI32 ==
    /\ ser.pc = "signed"
    /\ Len(ser.signed) = 32
    /\ LET r == encode_padded_i32(ser.buffer, ser.signed)
       IN ser' = [ser EXCEPT !.pc = "padded", !.buffer = r]
    /\ UNCHANGED <<pc, inp, module, ctx, decl, b, sref, body, panic, ex>>

\* buffer.encode_padded_i64(value)
EncodePaddedI64 ==
    /\ ser.pc = "signed"
    /\ Len(ser.signed) = 64
    /\ LET r == encode_padded_i64(ser.buffer, ser.signed)
       IN ser' = [ser EXCEPT !.pc = "padded", !.buffer = r]
    /\ UNCHANGED <<pc, inp, module, ctx, decl, b, sref, body, panic, ex>>

SerialNext ==
    \/ EncodeU32
    \/ ParseU32
    \/ DecodeU32
    \/ ReservePaddedU32
    \/ EncodePaddedU32
    \/ OverwritePaddedU32
    \/ EncodeI32
    \/ EncodeI64
    \/ EncodePaddedI32
    \/ EncodePaddedI64

SerialSpec == SerialInit /\ [][SerialNext]_vars

(***************************************************************************)
(* Properties.                                                             *)
(***************************************************************************)
DeclareFailed == "Error when building function"

\* define_proc_body has been entered: the entry block and its scope exist
Entered == pc \notin {"declare", "entry"} /\ panic # DeclareFailed

\* build_expr of the body has returned or panicked
Lowered == Entered /\ pc # "body"

Unresolved == "Could not resolve lookup"

ArgSymbols == {inp.proc.args[i].symbol : i \in 1..Len(inp.proc.args)}

\* the names an initializer loads, outside binding sequences of its own
RECURSIVE LoadNames(_)
LoadNames(e) ==
    CASE e.tag = "Load" -> {e.name}
      [] e.tag = "CallByName" -> UNION {LoadNames(e.args[i].expr) : i \in 1..Len(e.args)}
      [] OTHER -> {}

\* the names bound when the initializer of binding i is lowered
InForce(stores, i) ==
    ArgSymbols \cup (DOMAIN inp.scope) \cup {stores[k].name : k \in 1..(i - 1)}

\* the names binding i loads that are its own or a later binding's
SelfOrForward(stores, i) ==
    LoadNames(stores[i].expr) \cap {stores[j].name : j \in i..Len(stores)}

\* every load of a stack slot in `instrs` follows a store to that slot
LoadsFollowStores(instrs) ==
    \A q \in 1..Len(instrs) :
        instrs[q].op = "stack_load" =>
            \E k \in 1..(q - 1) : instrs[k].op = "stack_store" /\ instrs[k].tgt = instrs[q].tgt

\* C1 as stated: a binding sequence with a binding whose initializer loads
\* its own name or a later binding's name always fails with the
\* unresolved-symbol error of Load.
C1_SelfReferenceAlwaysFails ==
    (Lowered /\ inp.proc.body.tag = "Store"
       /\ \E i \in 1..Len(inp.proc.body.stores) : SelfOrForward(inp.proc.body.stores, i) # {})
    => panic = Unresolved

\* C1 amended: a binding whose initializer loads its own name or a later
\* binding's name fails with the unresolved-symbol error of Load when the
\* scope in force (the caller's scope and the earlier bindings) does not bind
\* that name, and in no case is a slot loaded before the binding that owns
\* it has stored into it.
C1_SelfReferenceUnresolved ==
    (Lowered /\ inp.proc.body.tag = "Store") =>
        LET stores == inp.proc.body.stores
        IN  /\ (\E i \in 1..Len(stores) : SelfOrForward(stores, i) \ InForce(stores, i) # {})
                  => panic = Unresolved
            /\ LoadsFollowStores(b.blocks[1])

C1_Witness ==
    /\ pc = "panic"
    /\ panic = Unresolved
    /\ inp.proc.body.tag = "Store"
    /\ Len(inp.proc.body.stores) = 2
    /\ inp.proc.body.stores[1].expr = ExprLoad(inp.proc.body.stores[2].name)
    /\ inp.proc.body.stores[2].name \notin InForce(inp.proc.body.stores, 1)
    /\ b.log # << >>

LogEvents(ev) == {i \in 1..Len(b.log) : b.log[i].ev = ev}

CountOps(op) ==
    Cardinality({<<k, i>> \in (1..Len(b.blocks)) \X (1..30) :
                    i <= Len(b.blocks[k]) /\ b.blocks[k][i].op = op})

\* C2: the scope handed to define_proc_body holds the bindings it held
\* before, at every point from the call on; every lowering of a binding
\* sequence returns with its caller's scope as it was; and an expression
\* lowered after a sibling that contains a binding sequence resolves the
\* name bound there as the caller's scope does: not at all when the caller's
\* scope does not bind it, to the caller's binding (the parameter, no second
\* slot load) when it does.
C2_ScopeCopyOnExtend ==
    /\ pc \notin {"declare", "entry"} => b.scopes[1] = inp.scope
    /\ \A i \in LogEvents("store_ret") : b.log[i].n = 1
    /\ (Lowered /\ inp.proc.body \in SiblingBodies) =>
          /\ ("u" \notin ArgSymbols /\ inp.proc.body.tag # "Struct") => panic = Unresolved
          /\ panic = "" => ("u" \in ArgSymbols /\ CountOps("stack_load") = 1)

C2_Witness ==
    /\ pc = "panic"
    /\ panic = Unresolved
    /\ inp.proc.body \in SiblingBodies
    /\ inp.proc.body.tag = "CallByName"
    /\ "u" \notin ArgSymbols
    /\ LogEvents("store_ret") # {}
    /\ b.scopes[1] = inp.scope

(***************************************************************************)
(* The value of an expression of the scalar fragment (literals, parameters,*)
(* NUM_ADD, INT_EQ_I64, Cond, Switch) under the arguments of a call, and   *)
(* the number of blocks its lowering creates.                              *)
(***************************************************************************)
ArgIndex(name) == CHOOSE i \in 1..Len(inp.proc.args) : inp.proc.args[i].symbol = name

RECURSIVE Eval(_, _)
Eval(expr, argv) ==
    CASE expr.tag = "Int" -> expr.num
      [] expr.tag = "Bool" -> IF expr.val THEN 1 ELSE 0
      [] expr.tag = "Load" -> argv[ArgIndex(expr.name)]
      [] expr.tag = "CallByName" /\ expr.symbol = "NUM_ADD" ->
            Eval(expr.args[1].expr, argv) + Eval(expr.args[2].expr, argv)
      [] expr.tag = "CallByName" /\ expr.symbol = "INT_EQ_I64" ->
            IF Eval(expr.args[1].expr, argv) = Eval(expr.args[2].expr, argv) THEN 1 ELSE 0
      [] expr.tag = "Cond" ->
            IF Eval(expr.cond, argv) # 0 THEN Eval(expr.pass, argv) ELSE Eval(expr.fail, argv)
      [] expr.tag = "Switch" ->
            LET d == Eval(expr.cond, argv)
                hit == {k \in 1..Len(expr.branches) : expr.branches[k].val = d}
            IN  IF hit = {} THEN Eval(expr.default_branch, argv)
                ELSE Eval(expr.branches[CHOOSE k \in hit : TRUE].expr, argv)
      [] OTHER -> 0

RECURSIVE BlockCount(_)
BlockCount(expr) ==
    CASE expr.tag = "Cond" ->
            3 + BlockCount(expr.cond) + BlockCount(expr.pass) + BlockCount(expr.fail)
      [] expr.tag = "Switch" ->
            2 + Len(expr.branches) + BlockCount(expr.cond) + BlockCount(expr.default_branch)
              + SumSeq([k \in 1..Len(expr.branches) |-> BlockCount(expr.branches[k].expr)])
      [] expr.tag = "CallByName" ->
            SumSeq([k \in 1..Len(expr.args) |-> BlockCount(expr.args[k].expr)])
      [] OTHER -> 0

Visits(block) == Cardinality({i \in 1..Len(ex.visited) : ex.visited[i] = block})

Returned == pc = "run" /\ ex.status = "returned"

\* C3: a run of the function built from a Cond body with a boolean condition
\* layout never traps and enters no block twice; when it has returned, its
\* result is the value of the pass arm if the condition evaluated to true and
\* of the fail arm otherwise, exactly one of the two arm blocks was entered,
\* and the result block was entered once.
C3_CondSelectsArm ==
    (pc = "run" /\ inp \in CondInputs /\ inp.proc.body.cond_layout = BoolL) =>
        LET e == inp.proc.body
            ret_block == 2
            pass_block == 3 + BlockCount(e.cond)
            fail_block == pass_block + 1
            c == Eval(e.cond, ex.argv)
        IN  /\ ex.status # "trap"
            /\ \A k \in 1..Len(b.blocks) : Visits(k) <= 1
            /\ ex.status = "returned" =>
                  /\ ex.result = IF c # 0 THEN Eval(e.pass, ex.argv) ELSE Eval(e.fail, ex.argv)
                  /\ Visits(pass_block) = (IF c # 0 THEN 1 ELSE 0)
                  /\ Visits(fail_block) = (IF c # 0 THEN 0 ELSE 1)
                  /\ Visits(ret_block) = 1

C3_Witness ==
    /\ Returned
    /\ inp.proc.body = CondOf(ExprLoad("p"), ExprInt(1), Add(ExprLoad("x"), ExprInt(1)))
    /\ ex.argv = <<0, 2>>
    /\ ex.result = 3
    /\ ex.visited = <<1, 4, 2>>

\* C4: a run of the function built from a Switch body never traps and enters
\* no block twice; when it has returned with the discriminant d, at most one
\* explicit branch has the value d, the result is the value of that branch's
\* body, or of the default body when there is none, and of the default block
\* and the branch blocks exactly that one was entered.
C4_SwitchSelectsBranch ==
    (pc = "run" /\ inp \in SwitchInputs) =>
        LET e == inp.proc.body
            n == Len(e.branches)
            default_block == 2
            ret_block == 3
            d == Eval(e.cond, ex.argv)
            hit == {k \in 1..n : e.branches[k].val = d}
        IN  /\ ex.status # "trap"
            /\ \A k \in 1..Len(b.blocks) : Visits(k) <= 1
            /\ Cardinality(hit) <= 1
            /\ ex.status = "returned" =>
                  /\ \A k \in hit : ex.result = Eval(e.branches[k].expr, ex.argv)
                  /\ hit = {} => ex.result = Eval(e.default_branch, ex.argv)
                  /\ \A k \in 1..n : Visits(ret_block + k) = (IF k \in hit THEN 1 ELSE 0)
                  /\ Visits(default_block) = (IF hit = {} THEN 1 ELSE 0)
                  /\ Visits(ret_block) = 1

C4_Witness ==
    /\ Returned
    /\ inp.proc.body =
          ExprSwitch(ExprLoad("x"), Int64L, <<Branch(0, ExprInt(2)), Branch(1, ExprInt(1))>>,
                     Add(ExprLoad("x"), ExprInt(1)), Int64L)
    /\ ex.argv = <<0, 1>>
    /\ ex.result = 1
    /\ ex.visited = <<1, 5, 3>>

\* the (byte offset, literal) pairs of the stores into a stack slot
SlotStores(slot) ==
    {<<i.imm, (CHOOSE c \in AllInstrs(b.blocks) : c.res = i.args[1]).imm>> :
        i \in {j \in AllInstrs(b.blocks) : j.op = "stack_store" /\ j.tgt = slot}}

\* the pairs a record of integer literals is to store: the field with k
\* fields before it in the order of the names, at offset 8 * k
RecordImage(fields) ==
    {<<8 * Cardinality({j \in DOMAIN fields :
                            NameRank(fields[j].name) < NameRank(fields[i].name)}),
       fields[i].expr.num>> : i \in DOMAIN fields}

IntFields(fields) == \A i \in DOMAIN fields : fields[i].expr.tag = "Int"

\* C5: the lowering of a Struct of integer literals with unique field names
\* succeeds and stores, into the one slot it creates, one value per field:
\* the field at position k of the name order at offset 8 * k, which is a
\* function of the set of (name, literal) pairs and not of the source order.
C5_RecordOrderIndependent ==
    (Lowered /\ inp \in StructInputs /\ IntFields(inp.proc.body.fields)) =>
        /\ panic = ""
        /\ Len(b.slots) = 1
        /\ CountOps("stack_store") = Len(inp.proc.body.fields)
        /\ SlotStores(1) = RecordImage(inp.proc.body.fields)

C5_Witness ==
    /\ pc = "return"
    /\ inp \in StructInputs
    /\ Len(inp.proc.body.fields) = 3
    /\ [i \in 1..3 |-> inp.proc.body.fields[i].name] = <<"c", "a", "b">>
    /\ SlotStores(1) = {<<0, 2>>, <<8, 1>>, <<16, 1>>}

\* the instructions the lowering of the body put into the entry block
BodyInstrs == SelectSeq(b.blocks[1], LAMBDA i : i.op # "return")

DefineFailed == "Defining Cranelift function failed"
FnPointerLoad == "TODO I don't yet know how to return fn pointers"

\* C6: the lowering of a body Load s goes by the descriptor that the scope in
\* force (the scope passed in, extended by the parameters) maps s to: no
\* descriptor, the unresolved error; Func, the function-pointer error; Stack,
\* one stack_load of the descriptor's type from offset 0 of its slot, whose
\* result is the value; Heap, one load of the descriptor's type from offset 0
\* of its address, whose result is the value; Arg, no instruction, the value
\* being the parameter itself.
C6_LoadByDescriptor ==
    (Lowered /\ inp \in LoadInputs) =>
        LET s == inp.proc.body.name
            scope == b.scopes[sref]
            e == scope[s]
            nparams == Len(decl.sig.params)
            one(op, args, tgt) ==
                /\ panic \in {"", DefineFailed}
                /\ BodyInstrs = <<[Instr(op, e.expr_type, 0, args, tgt) EXCEPT !.res = nparams + 1]>>
                /\ body = nparams + 1
        IN  IF s \notin DOMAIN scope THEN panic = Unresolved
            ELSE CASE e.kind = "Stack" -> one("stack_load", << >>, e.id)
                   [] e.kind = "Heap" -> one("load", <<e.id>>, 0)
                   [] e.kind = "Arg" ->
                        /\ panic \in {"", DefineFailed}
                        /\ BodyInstrs = << >>
                        /\ body = e.id
                   [] e.kind = "Func" -> panic = FnPointerLoad

C6_Witness ==
    /\ pc = "return"
    /\ inp \in LoadInputs
    /\ inp.proc.body = ExprLoad("x")
    /\ inp.proc.args = ArgPX
    /\ "x" \in DOMAIN inp.scope
    /\ inp.scope["x"].kind = "Stack"
    /\ b.scopes[sref]["x"] = ArgEntry("i64", 2)
    /\ b.blocks[1] = << >>
    /\ body = 2

NoFunction == "CallByName could not find function"

Calls == {i \in AllInstrs(b.blocks) : i.op = "call"}

\* the instructions a call of fn_id with literal and parameter arguments is
\* to leave in the entry block: the literals in the order of the arguments,
\* then the call on the argument values in that order
ExpectedCall(args, fn_id, ret_type, nparams) ==
    LET ints == SelectSeq(args, LAMBDA a : a.expr.tag = "Int")
        val(k) == IF args[k].expr.tag = "Int"
                  THEN nparams + Len(SelectSeq(SubSeq(args, 1, k), LAMBDA a : a.expr.tag = "Int"))
                  ELSE ArgIndex(args[k].expr.name)
    IN  [i \in 1..Len(ints) |->
            [Instr("iconst", "i64", ints[i].expr.num, << >>, 0) EXCEPT !.res = nparams + i]]
        \o <<[Instr("call", ret_type, 0, [k \in 1..Len(args) |-> val(k)], fn_id)
                EXCEPT !.res = nparams + Len(ints) + 1]>>

\* the lowering of a CallByName body, with the calls a builtin may emit
NamedCall(builtin_calls) ==
    (Lowered /\ inp \in CallInputs) =>
        LET symbol == inp.proc.body.symbol
            args == inp.proc.body.args
            scope == b.scopes[sref]
            unbound == \E k \in 1..Len(args) :
                          /\ args[k].expr.tag = "Load"
                          /\ args[k].expr.name \notin DOMAIN scope
        IN  IF symbol \in Builtins THEN Calls \subseteq builtin_calls
            ELSE IF ~(symbol \in DOMAIN scope /\ scope[symbol].kind = "Func")
            THEN panic = NoFunction /\ BodyInstrs = << >>
            ELSE IF unbound THEN panic = Unresolved /\ Calls = {}
            ELSE /\ panic \in {"", DefineFailed}
                 /\ BodyInstrs = ExpectedCall(args, scope[symbol].id,
                                              scope[symbol].sig.returns[1],
                                              Len(decl.sig.params))

\* C7 as stated: a builtin symbol emits no direct call at all.
C7_BuiltinEmitsNoCall == NamedCall({})

\* C7: a CallByName of a builtin symbol emits no call of a function bound in
\* the scope, also when the scope binds the symbol to a Func: the one call a
\* builtin emits is LIST_SET's call of the allocation primitive.  A
\* CallByName of another symbol fails with the unknown-function error unless
\* the scope maps it to a Func (absent, Stack, Heap, Arg all fail), fails
\* with the error of an argument that does not lower, and otherwise lowers
\* the arguments left to right under the caller's scope and then emits one
\* call of that function on their values.
C7_NamedCallDispatch ==
    NamedCall({i \in AllInstrs(b.blocks) :
                  /\ i.op = "call"
                  /\ i.tgt = inp.env.malloc
                  /\ inp.proc.body.symbol = "LIST_SET"})

C7_Witness ==
    /\ pc = "return"
    /\ inp \in CallInputs
    /\ inp.scope = BuiltinScope
    /\ inp.proc.body.symbol = "LIST_SET"
    /\ Len(inp.proc.body.args) = 3
    /\ \E i \in Calls : i.tgt = MallocId
    /\ Cardinality(Calls) = 1

C7_FuncWitness ==
    /\ pc = "return"
    /\ inp \in CallInputs
    /\ inp.proc.body = ExprCallByName("g", <<Arg(ExprInt(1), Int64L), Arg(ExprInt(2), Int64L)>>)
    /\ Len(BodyInstrs) = 3
    /\ BodyInstrs[3].op = "call"
    /\ BodyInstrs[3].tgt = 3
    /\ BodyInstrs[3].args = <<2, 3>>

PastReturn ==
    \/ pc \in {"seal", "finalize", "define", "clear", "defined", "run"}
    \/ pc = "panic" /\ panic = DefineFailed

\* C8: from the lowering of the body on, one entry block has been opened and
\* has received the parameters of the signature; the scope the body is
\* lowered under binds the i-th argument symbol of the Proc to the Arg
\* descriptor of the i-th block parameter, with the machine type of its
\* layout, whatever the scope passed in binds it to, and agrees with the
\* scope passed in on every other symbol; a body that is a Load of the i-th
\* argument symbol lowers to that parameter value; and once the return is
\* emitted there is one return, of the body's value, at the end of the
\* current block.
C8_ArgsBoundInEntryBlock ==
    LET args == inp.proc.args
        scope == b.scopes[sref]
    IN  /\ Entered =>
              /\ LogEvents("append_block_params") # {}
              /\ \A k \in LogEvents("append_block_params") :
                    /\ b.log[k].n = 1
                    /\ k = 3
              /\ SubSeq(b.vtypes, 1, Len(args)) = decl.sig.params
              /\ \A i \in 1..Len(args) :
                    scope[args[i].symbol] =
                        ArgEntry(type_from_layout(inp.env, args[i].layout), i)
              /\ \A n \in DOMAIN inp.scope \ ArgSymbols : scope[n] = inp.scope[n]
              /\ DOMAIN scope = DOMAIN inp.scope \cup ArgSymbols
        /\ (Lowered /\ inp.proc.body.tag = "Load" /\ inp.proc.body.name \in ArgSymbols) =>
              /\ panic \in {"", DefineFailed}
              /\ body = ArgIndex(inp.proc.body.name)
              /\ BodyInstrs = << >>
        /\ PastReturn =>
              /\ CountOps("return") = 1
              /\ b.blocks[b.cur][Len(b.blocks[b.cur])] = Instr("return", "", 0, <<body>>, 0)

C8_Witness ==
    /\ pc = "seal"
    /\ inp \in LoadInputs
    /\ inp.proc.body = ExprLoad("x")
    /\ inp.proc.args = ArgPX
    /\ "x" \in DOMAIN inp.scope
    /\ inp.scope["x"].kind = "Heap"
    /\ body = 2
    /\ b.blocks = <<(<<Instr("return", "", 0, <<2>>, 0)>>)>>

Sealing == LogEvents("seal_block") \cup LogEvents("seal_all_blocks")

\* C9: no block of any kind is sealed, and no seal is requested, before the
\* return instruction has been emitted; from then on until finalization is
\* due nothing is sealed yet or everything is, by one seal_all_blocks that
\* follows the return in the order of the builder calls and precedes
\* finalize; the function is defined in the module only with a finalized
\* builder; and once define_proc_body has returned the context is cleared.
C9_TwoPhaseSealing ==
    /\ (pc \in {"declare", "entry", "body", "return", "seal"}
            \/ (pc = "panic" /\ panic # DefineFailed)) =>
          /\ b.sealed = {}
          /\ Sealing = {}
          /\ ~b.finalized
    /\ pc = "seal" => LogEvents("return") # {}
    /\ PastReturn /\ pc # "seal" =>
          /\ b.sealed = 1..Len(b.blocks)
          /\ Cardinality(Sealing) = 1
          /\ \A k \in Sealing :
                /\ b.log[k].ev = "seal_all_blocks"
                /\ \A r \in LogEvents("return") : r < k
                /\ \A o \in 1..Len(b.log) : o < k => b.log[o].ev # "finalize"
                /\ \A o \in 1..Len(b.log) : o > k => b.log[o].ev = "finalize"
    /\ b.finalized <=> (PastReturn /\ pc \notin {"seal", "finalize"})
    /\ decl.fn_id \in module.defined => (b.finalized /\ pc \in {"clear", "defined", "run"})
    /\ pc \in {"clear", "defined", "run"} => decl.fn_id \in module.defined
    /\ pc \in {"defined", "run"} => ctx = NewContext
    /\ pc \in {"body", "return", "seal", "finalize", "define", "clear"} => ctx.has_func

C9_Witness ==
    /\ pc = "defined"
    /\ inp.proc.body.tag = "Cond"
    /\ Len(b.blocks) = 4
    /\ b.sealed = 1..4
    /\ Cardinality(LogEvents("seal_all_blocks")) = 1
    /\ b.finalized
    /\ decl.fn_id \in module.defined
    /\ ctx = NewContext

\* the signature a Proc is to be declared with
ProcSignature ==
    Signature([i \in 1..Len(inp.proc.args) |->
                  type_from_layout(inp.env, inp.proc.args[i].layout)],
              <<type_from_layout(inp.env, inp.proc.ret_layout)>>)

\* the module the Proc is declared in knows its name as something else
Collides ==
    \E d \in {NewModule(inp.extra).decls[k] : k \in 1..Len(NewModule(inp.extra).decls)} :
        /\ d.name = inp.proc.symbol.ident
        /\ d.kind # "func" \/ d.sig # ProcSignature

\* C10: declare_proc fails with its fatal error exactly when the module knows
\* the name derived from the Symbol as a data object or as a function of
\* another signature, leaving the module as it was; otherwise it returns the
\* signature with one parameter per Proc argument, in declared order, of the
\* machine type of that argument's layout, and one return, of the machine
\* type of the return layout, and the id of a function the module has under
\* that name with that signature.
C10_DeclareProcSignature ==
    pc # "declare" =>
        IF Collides
        THEN pc = "panic" /\ panic = DeclareFailed /\ module = NewModule(inp.extra)
        ELSE /\ panic # DeclareFailed
             /\ decl.sig = ProcSignature
             /\ Len(decl.sig.returns) = 1
             /\ Len(decl.sig.params) = Len(inp.proc.args)
             /\ decl.fn_id \in 1..Len(module.decls)
             /\ module.decls[decl.fn_id] = Decl(inp.proc.symbol.ident, "func", decl.sig)
             /\ \A k \in 1..Len(module.decls) :
                   module.decls[k].name = inp.proc.symbol.ident => k = decl.fn_id

C10_Witness ==
    /\ pc = "entry"
    /\ inp.proc.args = <<Param(BoolL, "x"), Param(Float64L, "y")>>
    /\ inp.proc.ret_layout = Int64L
    /\ inp.extra = << >>
    /\ decl.sig = Signature(<<"b1", "f64">>, <<"i64">>)
    /\ decl.fn_id = 4
    /\ module.decls[4] = Decl("main", "func", decl.sig)

C10_CollisionWitness ==
    /\ pc = "panic"
    /\ panic = DeclareFailed
    /\ inp.proc.symbol.ident = "f"
    /\ Len(inp.proc.args) = 2

\* the number of arguments each builtin of call_by_name takes
Arity(symbol) ==
    CASE symbol = "NUM_NEG" -> 1
      [] symbol \in {"LIST_SET", "LIST_SET_IN_PLACE"} -> 3
      [] OTHER -> 2

LoweringFailed == pc = "panic" /\ panic \notin {DeclareFailed, DefineFailed}

\* C11: a CallByName of a builtin symbol with a number of arguments other
\* than the builtin's arity fails during the lowering, and leaves no
\* instruction in the entry block.
C11_BuiltinArityAsserted ==
    (Lowered /\ inp \in CallInputs /\ inp.proc.body.symbol \in Builtins
        /\ Len(inp.proc.body.args) # Arity(inp.proc.body.symbol)) =>
        (LoweringFailed /\ BodyInstrs = << >>)

C11_Witness ==
    /\ pc = "return"
    /\ inp \in CallInputs
    /\ inp.env.debug_assertions
    /\ inp.proc.body.symbol = "LIST_SET"
    /\ Len(inp.proc.body.args) = 4
    /\ Len(BodyInstrs) = 7
    /\ CountOps("call") = 1
    /\ CountOps("store_complex") = 1

\* the instruction of the entry block that defines the value v
DefOf(v) == CHOOSE i \in AllInstrs(b.blocks) : i.res = v

Accesses == {i \in AllInstrs(b.blocks) : i.op \in {"load_complex", "store_complex"}}

\* C12: when the lowering of LIST_GET_UNSAFE, LIST_SET or LIST_SET_IN_PLACE on
\* a list of elements of layout k succeeds, the one memory access it emits is
\* at base + offset with offset the product of the index and a constant equal
\* to the byte size of k, and a read has the machine type of k.
C12_ListAccessByElementLayout ==
    (Lowered /\ inp \in CallInputs /\ ~LoweringFailed
        /\ inp.proc.body.symbol \in {"LIST_GET_UNSAFE", "LIST_SET", "LIST_SET_IN_PLACE"}
        /\ Len(inp.proc.body.args) = Arity(inp.proc.body.symbol)
        /\ inp.proc.body.args[1].layout.kind = "List") =>
        LET k == inp.proc.body.args[1].layout.elem
        IN  /\ Cardinality(Accesses) = 1
            /\ \A i \in Accesses :
                  LET offset == DefOf(i.args[Len(i.args)])
                  IN  /\ i.imm = 0
                      /\ offset.op = "imul"
                      /\ DefOf(offset.args[2]).op = "iconst"
                      /\ DefOf(offset.args[2]).imm = kind_size(k, PointerBytes)
                      /\ i.op = "load_complex" => i.ty = kind_type(k)

C12_Witness ==
    /\ pc = "return"
    /\ inp \in CallInputs
    /\ inp.proc.body.symbol = "LIST_GET_UNSAFE"
    /\ Len(inp.proc.body.args) = 2
    /\ inp.proc.body.args[1].layout = ListOf("Byte")
    /\ \E i \in Accesses :
          /\ i.op = "load_complex"
          /\ i.ty = "i64"
          /\ DefOf(DefOf(i.args[2]).args[2]).imm = 8

(***************************************************************************)
(* The list an expression of the list fragment denotes (an array literal,  *)
(* or an in-place write into one), as the sequence of its elements.        *)
(***************************************************************************)
RECURSIVE ListVal(_, _)
ListVal(expr, argv) ==
    IF expr.tag = "Array" THEN [k \in 1..Len(expr.elems) |-> Eval(expr.elems[k], argv)]
    ELSE LET l == ListVal(expr.args[1].expr, argv)
             i == Eval(expr.args[2].expr, argv)
         IN  [k \in 1..Len(l) |-> IF k = i + 1 THEN Eval(expr.args[3].expr, argv) ELSE l[k]]

\* every index of the expression is within the literal
RECURSIVE InRange(_, _)
InRange(expr, argv) ==
    IF expr.tag = "Array" THEN TRUE
    ELSE /\ InRange(expr.args[1].expr, argv)
         /\ Eval(expr.args[2].expr, argv) < Len(ListVal(expr.args[1].expr, argv))

\* C13: a run of the function built from an unchecked read at an index within
\* an array literal of 64-bit integers, or within such a literal after an
\* in-place write at an index within it, never traps and returns the element
\* of that list at the index read: the literal's element, or the value
\* written when the index is the one written.  A run of an in-place write
\* returns the address the literal was allocated at, and the memory from that
\* address on holds the written value at its index and the literal's
\* elements at the others.
C13_ListReadWrite ==
    (pc = "run" /\ inp \in ListInputs /\ InRange(inp.proc.body, ex.argv)) =>
        LET e == inp.proc.body
            l == ListVal(e.args[1].expr, ex.argv)
        IN  /\ ex.status # "trap"
            /\ (ex.status = "returned" /\ e.symbol = "LIST_GET_UNSAFE") =>
                  ex.result = l[Eval(e.args[2].expr, ex.argv) + 1]
            /\ (ex.status = "returned" /\ e.symbol = "LIST_SET_IN_PLACE") =>
                  /\ ex.result = MallocAddr(0)
                  /\ ex.nalloc = 1
                  /\ \A k \in 1..Len(l) :
                        ex.heap[ex.result + (8 * (k - 1))] = ListVal(e, ex.argv)[k]

C13_Witness ==
    /\ Returned
    /\ inp.proc.body = ListGet(ListSetInPlace(ListLit(3), ExprLoad("x"), ExprInt(99)),
                               ExprLoad("y"))
    /\ ex.argv = <<2, 2>>
    /\ ex.result = 99
    /\ ex.heap[MallocAddr(0)] = 10
    /\ ex.heap[MallocAddr(0) + 8] = 20
    /\ ex.heap[MallocAddr(0) + 16] = 99

\* the payload of a literal: the values it is to store and their size
Payload(expr) ==
    IF expr.tag = "Str" THEN [vals |-> expr.bytes, size |-> 1]
    ELSE [vals |-> [k \in 1..Len(expr.elems) |-> expr.elems[k].num],
          size |-> stack_size(expr.elem_layout, PointerBytes)]

\* C14: the lowering of a non-empty string or array literal of n values of
\* size s succeeds with one call, of the allocation primitive, on the
\* constant n * s + 1, and n + 1 stores relative to the address returned:
\* value i at offset i * s in the order of the literal, then a zero byte at
\* offset n * s; every offset is below the length requested and nothing else
\* is called.
C14_LiteralAllocation ==
    (Lowered /\ inp \in LiteralInputs) =>
        LET p == Payload(inp.proc.body)
            n == Len(p.vals)
            stores == SelectSeq(BodyInstrs, LAMBDA i : i.op = "store")
            calls == SelectSeq(BodyInstrs, LAMBDA i : i.op = "call")
        IN  /\ ~LoweringFailed
            /\ Len(calls) = 1
            /\ calls[1].tgt = inp.env.malloc
            /\ Len(calls[1].args) = 1
            /\ DefOf(calls[1].args[1]).op = "iconst"
            /\ DefOf(calls[1].args[1]).imm = (n * p.size) + 1
            /\ body = calls[1].res
            /\ Len(stores) = n + 1
            /\ \A k \in 1..n :
                  /\ stores[k].imm = (k - 1) * p.size
                  /\ stores[k].args[2] = calls[1].res
                  /\ DefOf(stores[k].args[1]).imm = p.vals[k]
            /\ stores[n + 1].imm = n * p.size
            /\ stores[n + 1].args[2] = calls[1].res
            /\ DefOf(stores[n + 1].args[1]) \in
                  {[Instr("iconst", "i8", 0, << >>, 0) EXCEPT !.res = r] : r \in 1..30}
            /\ \A k \in 1..(n + 1) :
                  stores[k].imm >= 0 /\ stores[k].imm < (n * p.size) + 1
            /\ Cardinality(Calls) = 1

C14_Witness ==
    /\ pc = "return"
    /\ inp.proc.body = ExprStr(<<104, 105, 105>>)
    /\ Cardinality(Calls) = 1
    /\ [k \in 1..4 |-> SelectSeq(BodyInstrs, LAMBDA i : i.op = "store")[k].imm] = <<0, 1, 2, 3>>
    /\ DefOf(BodyInstrs[2].args[1]).imm = 4

\* the positions in the entry block of the instructions with an operation
Positions(ops) == {k \in 1..Len(BodyInstrs) : BodyInstrs[k].op \in ops}

\* C15: when the lowering of a CallByPointer of a function pointer on
\* literal and parameter arguments succeeds, the func_addr of the callee
\* precedes the instructions of every argument, which precede the
\* call_indirect.
C15_CalleeBeforeArguments ==
    (Lowered /\ inp \in PointerInputs /\ ~LoweringFailed) =>
        /\ Cardinality(Positions({"func_addr"})) = 1
        /\ Cardinality(Positions({"call_indirect"})) = 1
        /\ \A c \in Positions({"func_addr"}), a \in Positions({"iconst"}),
              k \in Positions({"call_indirect"}) : c < a /\ a < k

C15_Witness ==
    /\ pc = "return"
    /\ inp.proc.body =
          ExprCallByPointer(ExprFunctionPointer("g"), <<ExprInt(1), ExprInt(2)>>,
                            FnPtrOf(<<"Int64", "Int64">>, "Int64"))
    /\ [k \in 1..4 |-> BodyInstrs[k].op] = <<"iconst", "iconst", "func_addr", "call_indirect">>
    /\ BodyInstrs[4].args = <<4, 2, 3>>

OffsetUnknown == "I don't yet know how to calculate the offset"

\* the stack_store instructions of the entry block, in order
FieldStores == SelectSeq(BodyInstrs, LAMBDA i : i.op = "stack_store")

\* C16: the lowering of a Struct succeeds whatever the shapes of its field
\* expressions, and stores the k-th field of the name order at the sum of
\* the sizes that the record's Layout gives the fields before it.
C16_FieldSizeFromLayout ==
    (Lowered /\ inp \in StructInputs) =>
        /\ ~LoweringFailed
        /\ Len(FieldStores) = Len(inp.proc.body.fields)
        /\ \A k \in 1..Len(FieldStores) :
              FieldStores[k].imm =
                  sum_sizes(SubSeq(inp.proc.body.layout.fields, 1, k - 1), PointerBytes)

C16_Witness ==
    /\ pc = "panic"
    /\ panic = OffsetUnknown
    /\ inp \in StructInputs
    /\ inp.proc.body.fields = <<Field("b", ExprLoad("x")), Field("a", ExprInt(1))>>
    /\ Len(FieldStores) = 1
    /\ FieldStores[1].imm = 0

\* the message build_expr is to fail with on an expression it cannot lower
FailMessage(expr) ==
    CASE expr.tag = "Str" -> "TODO build an empty string in Crane"
      [] expr.tag = "Array" -> "TODO build an empty Array in Crane"
      [] expr.tag = "Cond" -> "I don't know how to build a conditional"
      [] expr.tag = "FunctionPointer" -> "FunctionPointer could not find function"
      [] OTHER -> "I don't yet know how to crane build"

\* C17: the lowering of an empty string literal, an empty array literal, a
\* Cond whose condition layout is not Bool, a FunctionPointer of a symbol
\* that is absent or bound to a Stack, Heap or Arg descriptor, or an
\* expression without a lowering case fails with the panic of that case and
\* yields no value; no call is emitted, no branch for the Cond, and no
\* instruction at all in the other cases; nothing is defined in the module.
C17_UnsupportedFails ==
    (Lowered /\ inp \in FailInputs) =>
        /\ pc = "panic"
        /\ panic = FailMessage(inp.proc.body)
        /\ body = 0
        /\ Calls = {}
        /\ Positions({"brnz", "func_addr"}) = {}
        /\ inp.proc.body.tag # "Cond" => BodyInstrs = << >>
        /\ module.defined = NewModule(inp.extra).defined

C17_Witness ==
    /\ pc = "panic"
    /\ inp \in FailInputs
    /\ inp.proc.body = ExprFunctionPointer("h")
    /\ panic = "FunctionPointer could not find function"
    /\ b.scopes[sref]["h"].kind = "Heap"
    /\ BodyInstrs = << >>

\* C18: a panic ends the build: no step of define_proc_body follows it.
\* After a panic of build_expr the builder is neither sealed nor finalized,
\* and after any panic the module defines the functions it defined before
\* the call and holds no code for the function being built.
C18_NoPartialFunction ==
    /\ panic # "" => pc = "panic"
    /\ LoweringFailed => (b.sealed = {} /\ ~b.finalized /\ LogEvents("return") = {})
    /\ pc = "panic" =>
          /\ module.defined = NewModule(inp.extra).defined
          /\ module.code = << >>
    /\ module.defined # NewModule(inp.extra).defined =>
          (panic = "" /\ module.defined = NewModule(inp.extra).defined \cup {decl.fn_id})

C18_Witness ==
    /\ pc = "panic"
    /\ panic = Unresolved
    /\ inp \in StoreInputs
    /\ Len(BodyInstrs) >= 2
    /\ Len(b.slots) >= 1
    /\ module.defined = {3}
    /\ module.code = << >>

\* the bytes the i-th encode_u32 call appended, by the lengths it returned
Encoding(i) ==
    LET start == SumSeq(SubSeq(ser.rets, 1, i - 1))
    IN SubSeq(ser.buffer, start + 1, start + ser.rets[i])

\* C19: unsigned LEB-128 round-trips through a cursor. For every sequence of
\* u32 values appended with encode_u32, each call returns the number of bytes
\* it appended, which is 1 to 5, with the high bit set on every byte of the
\* encoding but its last; the parse_u32_or_panic calls from cursor 0 never
\* panic and return the values in order, each advancing the cursor by the
\* encoded length of its value, and after the last one the cursor is the
\* buffer's length.
C19_UnsignedRoundTrip ==
    ser.pc \in {"write", "panic"} =>
        /\ ser.pc = "write"
        /\ Len(ser.rets) = Len(ser.values)
        /\ SumSeq(ser.rets) = Len(ser.buffer)
        /\ \A i \in 1..Len(ser.values) :
              /\ ser.rets[i] \in 1..MAX_SIZE_ENCODED_U32
              /\ Len(Encoding(i)) = ser.rets[i]
              /\ \A k \in 1..ser.rets[i] : (Encoding(i)[k] >= 128) <=> (k < ser.rets[i])
        /\ Len(ser.parsed) <= Len(ser.values)
        /\ \A i \in 1..Len(ser.parsed) :
              /\ ser.parsed[i] = ser.values[i]
              /\ ser.steps[i] = ser.rets[i]
        /\ ser.cursor = SumSeq(SubSeq(ser.rets, 1, Len(ser.parsed)))
        /\ Len(ser.parsed) = Len(ser.values) => ser.cursor = Len(ser.buffer)

\* a five-byte and a two-byte encoding written, both parsed back
C19_Witness ==
    /\ ser.pc = "write"
    /\ ser.values = << <<65535, 65535>>, <<0, 128>> >>
    /\ ser.buffer = <<255, 255, 255, 255, 15, 128, 1>>
    /\ ser.rets = <<5, 2>>
    /\ ser.parsed = ser.values
    /\ ser.cursor = 7

\* the positions, among the first min(len, 5) bytes of the input, of the bytes
\* with the high bit clear
ClearBytes ==
    LET n == IF Len(ser.buffer) < MAX_SIZE_ENCODED_U32 THEN Len(ser.buffer)
             ELSE MAX_SIZE_ENCODED_U32
    IN {i \in 1..n : ser.buffer[i] < 128}

\* C20: decode_u32 is total: it never panics, it returns an error exactly when
\* none of the first min(len, 5) bytes of the input has its high bit clear, and
\* otherwise it returns Ok with the offset just past the first such byte.
C20_DecodeU32Total ==
    ser.pc \in {"decoded", "panic"} =>
        /\ ser.pc = "decoded"
        /\ (ser.result.tag = "Err") <=> (ClearBytes = {})
        /\ ClearBytes # {} =>
              /\ ser.result.tag = "Ok"
              /\ ser.result.offset \in ClearBytes
              /\ \A i \in ClearBytes : ser.result.offset <= i

\* five leading continuation bytes, then a byte with the high bit clear
C20_Witness ==
    /\ ser.pc = "decoded"
    /\ ser.overflow_checks
    /\ Len(ser.buffer) = 6
    /\ \A i \in 1..5 : ser.buffer[i] >= 128
    /\ ser.buffer[6] < 128
    /\ ser.result.tag = "Err"

\* the bytes of the padded u32 at index (0-based)
PaddedAt(buffer, index) == SubSeq(buffer, index + 1, index + MAX_SIZE_ENCODED_U32)

\* the buffer that encode_padded_u32 of the value of every slot produces
RECURSIVE AllEncoded(_, _)
AllEncoded(buffer, slots) ==
    IF slots = << >>
    THEN buffer
    ELSE AllEncoded(encode_padded_u32(buffer, Head(slots).value).buffer, Tail(slots))

\* C21: a padded u32 occupies exactly MAX_SIZE_ENCODED_U32 = 5 bytes, the first
\* four with the continuation bit and the fifth without, and decode_u32 of
\* them is (value, 5); once every reserved index was overwritten the buffer is
\* the one encode_padded_u32 of the same values produces; overwrite_padded_u32
\* at a returned index never panics, keeps the buffer's size and changes no
\* byte outside [index, index + 5).
C21_PaddedU32 ==
    ser.pc = "pad" =>
        /\ ser.panic = ""
        /\ Len(ser.buffer) = Len(PaddedPrefix) + MAX_SIZE_ENCODED_U32 * Len(ser.slots)
        /\ \A k \in 1..Len(ser.slots) :
              /\ ser.slots[k].index = Len(PaddedPrefix) + MAX_SIZE_ENCODED_U32 * (k - 1)
              /\ ser.slots[k].state # "reserved" =>
                    LET bytes == PaddedAt(ser.buffer, ser.slots[k].index)
                    IN /\ Len(bytes) = 5
                       /\ \A i \in 1..4 : bytes[i] >= 128
                       /\ bytes[5] < 128
                       /\ decode_u32(ser.overflow_checks, bytes) = Ok(ser.slots[k].value, 5)
        /\ (\A k \in 1..Len(ser.slots) : ser.slots[k].state # "reserved")
              => ser.buffer = AllEncoded(PaddedPrefix, ser.slots)
        /\ \A i \in 1..Len(ser.before) :
              (i <= ser.at \/ i > ser.at + MAX_SIZE_ENCODED_U32) => ser.buffer[i] = ser.before[i]

\* a reserved u32 overwritten with u32::MAX, in front of an encoded one
C21_Witness ==
    /\ ser.pc = "pad"
    /\ Len(ser.slots) = 2
    /\ ser.slots[1] = PaddedSlot(1, <<65535, 65535>>, "overwritten")
    /\ ser.slots[2] = PaddedSlot(6, <<0, 128>>, "encoded")
    /\ ser.before = <<255, 255, 255, 255, 255, 255, 128, 129, 128, 128, 0>>
    /\ ser.buffer = <<255, 255, 255, 255, 255, 15, 128, 129, 128, 128, 0>>
    /\ ser.at = 1

\* the 7-bit groups of the bytes, lowest bit first, one after the other
RECURSIVE Groups(_)
Groups(bytes) ==
    IF bytes = << >>
    THEN << >>
    ELSE [i \in 1..7 |-> (Head(bytes) \div (2 ^ (i - 1))) % 2] \o Groups(Tail(bytes))

\* bit i of a two's-complement number, sign-extended above its top bit
BitAt(bits, i) == IF i <= Len(bits) THEN bits[i] ELSE bits[Len(bits)]

\* the bytes' groups, sign-extended from bit 6 of the last byte, are the value
Reconstructs(bytes, value) ==
    LET g == Groups(bytes)
        n == IF Len(g) > Len(value) THEN Len(g) ELSE Len(value)
    IN \A i \in 1..n : BitAt(g, i) = BitAt(value, i)

\* every byte but the last carries the continuation bit
Continued(bytes) == \A i \in 1..Len(bytes) : (bytes[i] >= 128) <=> (i < Len(bytes))

\* the most bytes of a signed value of this width: 5 for i32, 10 for i64
MaxEncoded(value) == (Len(value) \div 32) * MAX_SIZE_ENCODED_U32

\* C22: signed LEB-128 is value-preserving. encode_i32 (encode_i64) returns
\* the number of bytes it appended, at most 5 (10), every byte but the last
\* with the continuation bit, whose 7-bit groups sign-extended from bit 6 of
\* the last byte are the value, and the value's lowest k groups for a smaller
\* k do not sign-extend to it; encode_padded_i32 (encode_padded_i64) appends
\* exactly 5 (10) such bytes that reconstruct the same value.
C22_SignedValuePreserved ==
    /\ ser.pc = "encoded" =>
          /\ ser.rets = <<Len(ser.buffer)>>
          /\ Len(ser.buffer) \in 1..MaxEncoded(ser.signed)
          /\ Continued(ser.buffer)
          /\ Reconstructs(ser.buffer, ser.signed)
          /\ \A k \in 1..(Len(ser.buffer) - 1) :
                ~(\A i \in (7 * k + 1)..Len(ser.signed) : ser.signed[i] = ser.signed[7 * k])
    /\ ser.pc = "padded" =>
          /\ Len(ser.buffer) = MaxEncoded(ser.signed)
          /\ Continued(ser.buffer)
          /\ Reconstructs(ser.buffer, ser.signed)

\* i64::MIN encoded in ten bytes
C22_Witness ==
    /\ ser.pc = "encoded"
    /\ Len(ser.signed) = 64
    /\ ser.signed[64] = 1
    /\ \A i \in 1..63 : ser.signed[i] = 0
    /\ ser.buffer = <<128, 128, 128, 128, 128, 128, 128, 128, 128, 127>>

\* the builder events of define_proc_body's build_expr: from the first
\* declare_var on
BodyLog ==
    LET first == CHOOSE i \in LogEvents("declare_var") :
                    \A j \in LogEvents("declare_var") : i <= j
    IN IF LogEvents("declare_var") = {} THEN << >> ELSE SubSeq(b.log, first, Len(b.log))

\* the events of lowering, in block blk, an expression that needs no block:
\* a literal, a Load of a parameter, a NUM_ADD of two such
RECURSIVE PlainEvents(_, _)
PlainEvents(expr, blk) ==
    CASE expr.tag = "Int" -> <<Event("iconst", blk)>>
      [] expr.tag = "Load" -> << >>
      [] expr.tag = "CallByName" ->
            PlainEvents(expr.args[1].expr, blk) \o PlainEvents(expr.args[2].expr, blk)
            \o <<Event("iadd", blk)>>

\* the events of one arm of a conditional: enter its block, lower its body,
\* write the result variable, jump
ArmEvents(expr, blk) ==
    <<Event("switch_to_block", blk)>> \o PlainEvents(expr, blk)
    \o <<Event("def_var", blk), Event("jump", blk)>>

\* the events of lowering a discriminant in the entry block when k blocks
\* exist: a plain expression, or a Cond of plain expressions
DiscriminantEvents(expr, k) ==
    IF expr.tag # "Cond"
    THEN PlainEvents(expr, 1)
    ELSE <<Event("create_block", k + 1), Event("declare_var", 0)>>
         \o PlainEvents(expr.cond, 1)
         \o <<Event("create_block", k + 2), Event("create_block", k + 3),
              Event("brnz", 1), Event("jump", 1)>>
         \o ArmEvents(expr.pass, k + 2) \o ArmEvents(expr.fail, k + 3)
         \o <<Event("switch_to_block", k + 1), Event("use_var", k + 1)>>

RECURSIVE EntryEvents(_, _)
EntryEvents(n, i) ==
    IF i > n THEN << >>
    ELSE <<Event("create_block", 3 + i), Event("set_entry", 3 + i)>> \o EntryEvents(n, i + 1)

RECURSIVE BranchEvents(_, _)
BranchEvents(branches, i) ==
    IF i > Len(branches) THEN << >>
    ELSE ArmEvents(branches[i].expr, 3 + i) \o BranchEvents(branches, i + 1)

\* the events of build_switch for a Switch that is the body of the procedure:
\* block 1 is the entry block, 2 the default block, 3 the result block, 3 + i
\* the block of branch i
SwitchEvents(e) ==
    LET n == Len(e.branches)
    IN <<Event("declare_var", 0), Event("create_block", 2), Event("create_block", 3)>>
       \o EntryEvents(n, 1)
       \o DiscriminantEvents(e.cond, 3 + n)
       \o <<Event("switch", IF e.cond.tag = "Cond" THEN 3 + n + 1 ELSE 1)>>
       \o BranchEvents(e.branches, 1)
       \o ArmEvents(e.default_branch, 2)
       \o <<Event("switch_to_block", 3), Event("use_var", 3)>>

DuplicateEntry == "Tried to set the same entry twice"

\* C23: build_switch creates the default block, the result block and one
\* block per explicit branch and registers every branch value before the
\* discriminant is lowered and the dispatch emitted; the discriminant is
\* lowered once; the branch bodies are lowered in declaration order and the
\* default body last, each under the original scope, each ending with a write
\* of the result variable and a jump to the result block.
C23_SwitchOrder ==
    /\ (inp \in SwitchInputs /\ Lowered /\ panic \in {"", DefineFailed}) =>
          LET e == inp.proc.body
              want == SwitchEvents(e)
          IN /\ Len(BodyLog) >= Len(want)
             /\ SubSeq(BodyLog, 1, Len(want)) = want
             /\ \A blk \in {2} \cup {3 + i : i \in 1..Len(e.branches)} :
                   /\ Len(b.blocks[blk]) >= 2
                   /\ b.blocks[blk][Len(b.blocks[blk]) - 1].op = "def_var"
                   /\ b.blocks[blk][Len(b.blocks[blk])].op = "jump"
                   /\ b.blocks[blk][Len(b.blocks[blk])].tgt = 3
    /\ (inp \in SwitchInputs /\ Lowered /\ panic = DuplicateEntry) =>
          /\ LogEvents("switch") = {}
          /\ b.log[Len(b.log)].ev = "create_block"
    /\ (Lowered /\ inp.proc.body \in SiblingBodies /\ inp.proc.body.tag = "Switch") =>
          IF "u" \in ArgSymbols
          THEN panic = "" /\ b.blocks[4][1].op = "def_var"
          ELSE panic = Unresolved /\ LogEvents("switch") # {} /\ LogEvents("def_var") = {}

\* two branches and a discriminant that is itself a conditional
C23_Witness ==
    /\ pc = "defined"
    /\ inp.proc.body =
          ExprSwitch(CondOf(ExprLoad("p"), ExprInt(0), ExprInt(1)), Int64L,
                     <<Branch(1, ExprLoad("x")), Branch(0, ExprInt(2))>>,
                     Add(ExprLoad("x"), ExprInt(1)), Int64L)
    /\ Len(b.blocks) = 8
    /\ \E i \in LogEvents("switch") : b.log[i].n = 6

\* the positions in the entry block of the instructions with this op
EntryOps(op) == {i \in 1..Len(b.blocks[1]) : b.blocks[1][i].op = op}

\* a list builtin called with an array literal as its list
ListBuiltinOfLiteral ==
    /\ inp.proc.body.tag = "CallByName"
    /\ inp.proc.body.symbol \in {"LIST_GET_UNSAFE", "LIST_SET", "LIST_SET_IN_PLACE"}
    /\ Len(inp.proc.body.args) >= 2
    /\ inp.proc.body.args[1].expr.tag = "Array"

\* C24 (as claimed): every builtin lowers each argument once, left to right,
\* before its native instruction: the two literal arguments of a binary
\* builtin give their two constants in order and then the instruction, and an
\* array literal passed as the list is allocated and stored once (its
\* elements and the terminator) before the element access.  A run of LIST_SET
\* of a literal returns a list that holds the written value at the written
\* index and the literal's elements at the others.
C24_BuiltinLowersEveryArgument ==
    /\ (Lowered /\ panic = "" /\ inp.proc.body.tag = "CallByName"
        /\ inp.proc.body.symbol \in Builtins \ {"NUM_NEG", "LIST_GET_UNSAFE", "LIST_SET",
                                                  "LIST_SET_IN_PLACE"}
        /\ inp.proc.body.args = <<Arg(ExprInt(1), Int64L), Arg(ExprInt(2), Int64L)>>) =>
          /\ Len(BodyInstrs) = 3
          /\ BodyInstrs[1].op = "iconst" /\ BodyInstrs[1].imm = 1
          /\ BodyInstrs[2].op = "iconst" /\ BodyInstrs[2].imm = 2
          /\ BodyInstrs[3].args = <<BodyInstrs[1].res, BodyInstrs[2].res>>
    /\ (Lowered /\ panic = "" /\ ListBuiltinOfLiteral) =>
          /\ Cardinality(EntryOps("store")) = Len(inp.proc.body.args[1].expr.elems) + 1
          /\ \A i \in EntryOps("store"), j \in EntryOps("store_complex") \cup EntryOps("load_complex") :
                i < j
    /\ (Returned /\ ListBuiltinOfLiteral /\ inp.proc.body.symbol = "LIST_SET"
        /\ InRange(inp.proc.body, ex.argv)) =>
          LET l == ListVal(inp.proc.body, ex.argv)
          IN \A k \in 1..Len(l) :
                /\ (ex.result + (8 * (k - 1))) \in DOMAIN ex.heap
                /\ ex.heap[ex.result + (8 * (k - 1))] = l[k]

\* LIST_SET of the literal [1, 2] at index 1 has run: one allocation, nothing
\* at index 0 of the list returned
C24_Witness ==
    /\ Returned
    /\ ListBuiltinOfLiteral
    /\ inp.proc.body.symbol = "LIST_SET"
    /\ ex.nalloc = 1
    /\ ex.result = MallocAddr(0)
    /\ EntryOps("store") = {}
    /\ ex.result \notin DOMAIN ex.heap
    /\ (ex.result + 8) \in DOMAIN ex.heap

\* the positions on the path of the run of the result blocks already
\* executed, and of the one about to be: the blocks that begin with use_var
ResultReads ==
    {j \in 2..Len(ex.visited) :
        /\ b.blocks[ex.visited[j]] # << >>
        /\ b.blocks[ex.visited[j]][1].op = "use_var"}

\* the block the run came from into position j of its path
CameFrom(j) == b.blocks[ex.visited[j - 1]]

\* C25: every conditional and switch uses result variable 0, and nesting is
\* sound: whenever a run enters a result block, it comes from a block that
\* ends with a write of the variable and a jump to that result block, the
\* variable holds the value that block wrote, and the value read there stays
\* the value of the read for the rest of the run, whatever later and inner
\* conditionals write; the run of a nested expression returns its value.
C25_SharedResultVariable ==
    /\ \A i \in LogEvents("declare_var") : b.log[i].n = 0
    /\ pc = "run" =>
          /\ \A j \in ResultReads :
                LET from == CameFrom(j)
                    read == b.blocks[ex.visited[j]][1]
                IN /\ Len(from) >= 2
                   /\ from[Len(from)].op = "jump"
                   /\ from[Len(from)].tgt = ex.visited[j]
                   /\ from[Len(from) - 1].op = "def_var"
                   /\ (j = Len(ex.visited) /\ ex.status = "run") =>
                         ex.var0 = <<ex.vals[from[Len(from) - 1].args[1]]>>
                   /\ (j < Len(ex.visited) \/ ex.status = "returned") =>
                         ex.vals[read.res] = ex.vals[from[Len(from) - 1].args[1]]
          /\ inp \in NestingInputs =>
                /\ ex.status # "trap"
                /\ ex.status = "returned" => ex.result = Eval(inp.proc.body, ex.argv)

\* two conditionals as the arguments of one addition: the first chose 1, the
\* second wrote 2 after it
C25_Witness ==
    /\ Returned
    /\ inp.proc.body =
          Add(CondOf(ExprLoad("p"), ExprInt(1), ExprLoad("x")),
              CondOf(Eq(ExprLoad("x"), ExprInt(1)), ExprInt(2), ExprInt(0)))
    /\ ex.argv = <<1, 1>>
    /\ ex.var0 = <<2>>
    /\ ex.result = 3
    /\ Cardinality(ResultReads) = 2

\* the instructions that end a block: jump, the dispatch of a switch, return
Transfers == {"jump", "switch", "return"}

\* the number of times the builder switched to this block
SwitchedTo(k) == Cardinality({i \in LogEvents("switch_to_block") : b.log[i].n = k})

\* the block the builder switched to last
LastSwitchedTo ==
    b.log[CHOOSE i \in LogEvents("switch_to_block") :
             \A j \in LogEvents("switch_to_block") : j <= i].n

\* C26: after a successful define_proc_body every block created was switched
\* to exactly once and ends with exactly one jump, dispatch or return, with
\* no instruction after it (a brnz only directly before the final jump);
\* after a Cond or Switch is lowered the current block is its result block:
\* when blocks were created besides the entry block, the builder's current
\* block is the result block it switched to last, and the function's only
\* return is there.  The result block of a Cond or Switch that is the whole
\* body holds the read of the result variable and the return of that value.
C26_BlocksWellFormed ==
    pc \in {"defined", "run"} =>
        /\ \A k \in 1..Len(b.blocks) :
              LET blk == b.blocks[k]
              IN /\ SwitchedTo(k) = 1
                 /\ blk # << >>
                 /\ \A i \in 1..Len(blk) : (blk[i].op \in Transfers) <=> (i = Len(blk))
                 /\ \A i \in 1..Len(blk) :
                       blk[i].op = "brnz" => (i = Len(blk) - 1 /\ blk[Len(blk)].op = "jump")
                 /\ (blk[Len(blk)].op = "return") <=> (k = b.cur)
        /\ b.cur = LastSwitchedTo
        /\ Len(b.blocks) > 1 => b.blocks[b.cur][1].op = "use_var"
        /\ inp.proc.body.tag \in {"Cond", "Switch"} =>
              LET ret_block == IF inp.proc.body.tag = "Cond" THEN 2 ELSE 3
                  blk == b.blocks[ret_block]
              IN /\ b.cur = ret_block
                 /\ Len(blk) = 2
                 /\ blk[1].op = "use_var"
                 /\ blk[2].op = "return"
                 /\ blk[2].args = <<blk[1].res>>

\* a switch on a conditional with a conditional and a switch as branches has
\* been defined: twelve blocks
C26_Witness ==
    /\ pc = "defined"
    /\ inp \in NestingInputs
    /\ inp.proc.body.tag = "Switch"
    /\ inp.proc.body.cond.tag = "Cond"
    /\ Len(b.blocks) >= 10
    /\ b.cur = 3
    /\ \A k \in 1..Len(b.blocks) : SwitchedTo(k) = 1

====
